---------------------------- MODULE Spec2Model ----------------------------
(***************************************************************************)
(* Verification model of the stylesheet evaluator of grass                 *)
(* (src/src/parse/visitor.rs): the CSS output tree (CssTree), variable     *)
(* declarations, call-argument evaluation and binding, and @for.           *)
(*                                                                         *)
(* Each component is a state machine of its own over a shared set of       *)
(* variables:                                                              *)
(*   Spec      the CssTree arena: add_stmt* followed by finish             *)
(*   SpecVar   variable declarations against the scope chain               *)
(*   SpecCall  run_user_defined_callable: eval_args and parameter binding  *)
(*   SpecFor   visit_for_stmt                                              *)
(*   SpecEval  visit_stmt over whole stylesheets: control flow, rule sets, *)
(*             mixins and content blocks, function calls, context flags,   *)
(*             @media                                                      *)
(*   SpecMedia merge_media_queries over pairs of query lists               *)
(***************************************************************************)
EXTENDS Integers, Sequences, FiniteSets, TLC

(***************************************************************************)
(* Bounds of the model.                                                    *)
(***************************************************************************)
\* number of statements added to one CssTree before finish()
MaxStmts == 4
\* number of variable declarations visited in one run of SpecVar
MaxDecls == 3
\* number of scopes open at once on the scope chain
MaxDepth == 2
\* number of user-defined callables whose body is running at once
MaxCallDepth == 2
\* largest integer used as a bound of an @for range
MaxBound == 3
\* number of queries in a list handed to merge_media_queries
MaxQueries == 2
\* number of times one @while may run its body
MaxWhile == 2

(***************************************************************************)
(* Generic helpers for BTreeMap-like finite maps (functions).              *)
(***************************************************************************)
EmptyMap == [x \in {} |-> 0]

MapPut(m, k, v) == [x \in (DOMAIN m) \cup {k} |-> IF x = k THEN v ELSE m[x]]

MapRemove(m, k) == [x \in (DOMAIN m) \ {k} |-> m[x]]

\* Option<T>: None is the empty sequence, Some(x) the one-element sequence
None == <<>>

Some(x) == <<x>>

(***************************************************************************)
(* State                                                                   *)
(***************************************************************************)
VARIABLES
    \* CssTree
    stmts,            \* CssTree.stmts: slot idx is stmts[idx + 1]; NoStmt is the tombstone
    parent_to_child,  \* CssTree.parent_to_child: idx -> sequence of idx
    child_to_parent,  \* CssTree.child_to_parent: idx -> idx
    tree_pc,          \* "building" until finish() is called, then "finished" or "panicked"
    output,           \* the Vec<Stmt> returned by finish()
    added,            \* history: added[i] = [stmt, parent] of the i-th add_stmt call
    \* Environment and flags
    scopes,           \* Environment.scopes: sequence of scopes (name -> value), innermost last
    global_scope,     \* Environment.global_scope
    in_semi_global,   \* ContextFlags::IN_SEMI_GLOBAL_SCOPE
    module_config,    \* Visitor.module_config
    \* variable declarations
    frames,           \* what each open with_scope / control-flow construct restores on exit
    decl_count,       \* number of visit_variable_decl calls so far
    last_decl,        \* the last visit_variable_decl call: its argument, what it did and printed
    \* callables
    call_stack,       \* one frame per run_user_defined_callable whose body is running
    last_call,        \* the call entered or completed last: arguments, bindings, outcome
    call_pc,          \* "run", or "panicked" once a todo!()/unwrap() aborted the process
    \* @for
    for_stmt,         \* the AstFor being visited, with the numbers its bounds evaluated to
    for_loop,         \* the locals of visit_for_stmt: position, to, direction, i, result
    for_iters,        \* history: the numbers the loop variable was bound to, in order
    \* statement evaluator
    flags,            \* Visitor.flags: the set of ContextFlags that are set (IN_SEMI_GLOBAL_SCOPE is in_semi_global)
    content,          \* Environment.content: the active content block, if any
    visitor_parent,   \* Visitor.parent: the output node new nodes are added under
    style_rule,       \* Visitor.style_rule_ignoring_at_root: the selector of the enclosing style rule
    ev_program,       \* the stylesheet being visited, with its mixin and function declarations
    ev_stack,         \* one frame per handler whose body is being visited, innermost last
    ev_pending,       \* the result the innermost completed call handed to its caller, not yet handled
    ev_pc,            \* "idle", "running", "done" (Ok), "failed" (Err), "panicked"
    ev_trace,         \* history: the statements visit_stmt was called on, with the value they read
    last_visit,       \* history: flags at the start and at the return of the call that returned last
    \* @media
    media_queries,        \* Visitor.media_queries: the active query list, if any
    media_query_sources,  \* Visitor.media_query_sources
    merge_call,       \* the last call of merge_media_queries: its arguments and its result
    \* @extend, @warn, nested declarations
    declaration_name, \* Visitor.declaration_name: the property name nested declarations extend
    extensions,       \* history: the arguments of each Extender::add_extension call
    warnings_emitted, \* Visitor.warnings_emitted: the spans @warn has been visited at
    quiet,            \* Options::quiet
    current_import_path,  \* Visitor.current_import_path: a path is its sequence of components
    warnings          \* history: the warnings printed to stderr, [message, span]

vars_tree == <<stmts, parent_to_child, child_to_parent, tree_pc, output, added>>

vars_env == <<scopes, global_scope, in_semi_global, module_config>>

vars_decl == <<frames, decl_count, last_decl>>

vars_call == <<call_stack, last_call, call_pc>>

vars_for == <<for_stmt, for_loop, for_iters>>

vars_eval == <<flags, content, visitor_parent, style_rule, ev_program, ev_stack,
               ev_pending, ev_pc, ev_trace, last_visit,
               media_queries, media_query_sources, merge_call,
               declaration_name, extensions, warnings_emitted, quiet,
               current_import_path>>

vars == <<stmts, parent_to_child, child_to_parent, tree_pc, output, added,
          scopes, global_scope, in_semi_global, module_config,
          frames, decl_count, last_decl,
          call_stack, last_call, call_pc,
          for_stmt, for_loop, for_iters,
          flags, content, visitor_parent, style_rule, ev_program, ev_stack,
          ev_pending, ev_pc, ev_trace, last_visit,
          media_queries, media_query_sources, merge_call,
          declaration_name, extensions, warnings_emitted, quiet,
          current_import_path, warnings>>

(***************************************************************************)
(* CssTree                                                                 *)
(***************************************************************************)
\* Stmt variants whose add_child_to_parent arm pushes to a body
ContainerKinds ==
    {"RuleSet", "Media", "UnknownAtRule", "Supports", "Keyframes", "KeyframesRuleSet"}

\* Stmt variants whose add_child_to_parent arm is unreachable!()
LeafKinds == {"Style", "Comment", "Import"}

\* the statement kinds the model draws add_stmt inputs from
StmtKinds == {"RuleSet", "Media", "KeyframesRuleSet", "Style", "Comment"}

\* Option<Stmt>::None, the tombstone
NoStmt == [kind |-> "None", id |-> 0, body |-> <<>>]

\* a freshly opened statement: its body is empty, id stands for its content
NewStmt(k, n) == [kind |-> k, id |-> n, body |-> <<>>]

ROOT == 0

Slot(st, idx) == st[idx + 1]

has_children(parent) == parent \in DOMAIN parent_to_child

\* CssTree::new
CssTreeNew ==
    /\ stmts = <<NoStmt>>
    /\ parent_to_child = EmptyMap
    /\ child_to_parent = EmptyMap

InitTree ==
    /\ CssTreeNew
    /\ tree_pc = "building"
    /\ output = <<>>
    /\ added = <<>>

\* add_stmt_inner: push the statement, return its index
add_stmt_inner(stmt) == Append(stmts, stmt)

\* a plausible slip of add_child: the child is put first in the parent's list
add_child_prepend(child, parent_idx) ==
    LET child_idx == Len(stmts)
        old == IF parent_idx \in DOMAIN parent_to_child
               THEN parent_to_child[parent_idx] ELSE <<>>
    IN  /\ stmts' = add_stmt_inner(child)
        /\ parent_to_child' = MapPut(parent_to_child, parent_idx, <<child_idx>> \o old)
        /\ child_to_parent' = MapPut(child_to_parent, child_idx, parent_idx)

\* a plausible slip of add_child: the child is listed under its parent but
\* child_to_parent records the root
add_child_rootlink(child, parent_idx) ==
    LET child_idx == Len(stmts)
        old == IF parent_idx \in DOMAIN parent_to_child
               THEN parent_to_child[parent_idx] ELSE <<>>
    IN  /\ stmts' = add_stmt_inner(child)
        /\ parent_to_child' = MapPut(parent_to_child, parent_idx, Append(old, child_idx))
        /\ child_to_parent' = MapPut(child_to_parent, child_idx, ROOT)

\* add_child
add_child(child, parent_idx) ==
    LET child_idx == Len(stmts)
        old == IF parent_idx \in DOMAIN parent_to_child
               THEN parent_to_child[parent_idx] ELSE <<>>
    IN  /\ stmts' = add_stmt_inner(child)
        /\ parent_to_child' = MapPut(parent_to_child, parent_idx, Append(old, child_idx))
        /\ child_to_parent' = MapPut(child_to_parent, child_idx, parent_idx)

\* the parents the visitor passes to add_stmt: None, or the index of a
\* container statement it opened earlier (with_parent, with_scope_for_at_root)
ParentChoices ==
    {None} \cup {Some(i) : i \in {j \in 1..(Len(stmts) - 1) :
                                    Slot(stmts, j).kind \in ContainerKinds}}

\* add_stmt(child, parent)
add_stmt(k, parent) ==
    /\ tree_pc = "building"
    /\ Len(stmts) <= MaxStmts
    /\ LET child == NewStmt(k, Len(stmts))
       IN  /\ IF parent = None THEN add_child(child, ROOT) ELSE add_child(child, parent[1])
           /\ added' = Append(added,
                  [stmt |-> child, parent |-> IF parent = None THEN ROOT ELSE parent[1]])
    /\ UNCHANGED <<tree_pc, output>>
    /\ UNCHANGED <<vars_env, vars_decl, vars_call, vars_for, vars_eval, warnings>>

AddStmt == \E k \in StmtKinds : \E p \in ParentChoices : add_stmt(k, p)

\* add_child_to_parent on the slots ts.stmts; ts.panic records unreachable!()/todo!()
add_child_to_parent(ts, child, parent_idx) ==
    LET parent == Slot(ts.stmts, parent_idx)
    IN  IF parent.kind \in ContainerKinds
        THEN [ts EXCEPT !.stmts[parent_idx + 1].body = Append(parent.body, child)]
        ELSE [ts EXCEPT !.panic = TRUE]

\* a plausible slip: the spliced child is cloned and its slot stays live
take_leaves_slot(ts, idx) == ts

\* self.stmts[idx].borrow_mut().take(): the slot becomes a tombstone
take(ts, idx) == [ts EXCEPT !.stmts[idx + 1] = NoStmt]

\* apply_children(parent), from the k-th entry of the parent's child list on
RECURSIVE apply_children_from(_, _, _)
apply_children_from(ts, parent, k) ==
    IF ts.panic \/ k > Len(parent_to_child[parent])
    THEN ts
    ELSE LET child == parent_to_child[parent][k]
             t1 == IF has_children(child) THEN apply_children_from(ts, child, 1) ELSE ts
             taken == Slot(t1.stmts, child)
             t2 == IF t1.panic \/ taken = NoStmt
                   THEN t1
                   ELSE add_child_to_parent(take(t1, child), taken, parent)
         IN  apply_children_from(t2, parent, k + 1)

apply_children(ts, parent) == apply_children_from(ts, parent, 1)

\* a plausible slip of the loop bound of finish: one slot too few
finish_last_idx_short(st) == Len(st) - 3

\* the last idx the loop of finish visits: while idx < self.stmts.len() - 1
finish_last_idx(st) == Len(st) - 2

\* the while loop of finish, from slot idx on
RECURSIVE finish_loop(_, _)
finish_loop(ts, idx) ==
    IF ts.panic \/ idx > finish_last_idx(ts.stmts)
    THEN ts
    ELSE IF Slot(ts.stmts, idx) = NoStmt \/ ~has_children(idx)
         THEN finish_loop(ts, idx + 1)
         ELSE finish_loop(apply_children(ts, idx), idx + 1)

\* filter_map(RefCell::into_inner): the live slots, in slot order
RECURSIVE live_slots(_)
live_slots(st) ==
    IF st = <<>> THEN <<>>
    ELSE IF Head(st) = NoStmt THEN live_slots(Tail(st))
         ELSE <<Head(st)>> \o live_slots(Tail(st))

\* finish
finish ==
    /\ tree_pc = "building"
    /\ LET ts == finish_loop([stmts |-> stmts, panic |-> FALSE], 1)
       IN  /\ stmts' = ts.stmts
           /\ tree_pc' = IF ts.panic THEN "panicked" ELSE "finished"
           /\ output' = IF ts.panic THEN <<>> ELSE live_slots(ts.stmts)
    /\ UNCHANGED <<parent_to_child, child_to_parent, added>>
    /\ UNCHANGED <<vars_env, vars_decl, vars_call, vars_for, vars_eval, warnings>>

(***************************************************************************)
(* Values and expressions                                                  *)
(***************************************************************************)
\* a Value; every variant carries the same fields, the unused ones at a default
MkValue(kind, n, slash, text, elems, entries, kw, sep) ==
    [kind |-> kind, n |-> n, slash |-> slash, text |-> text,
     elems |-> elems, entries |-> entries, kw |-> kw, sep |-> sep]

\* Value::Null
Null == MkValue("Null", 0, FALSE, "", <<>>, <<>>, EmptyMap, "Undecided")

\* Value::Dimension(n, unit, None)
Num(n) == MkValue("Dimension", n, FALSE, "", <<>>, <<>>, EmptyMap, "Undecided")

\* Value::Dimension(n, unit, Some(as_slash)): a number that came from a `/`
SlashNum(n) == MkValue("Dimension", n, TRUE, "", <<>>, <<>>, EmptyMap, "Undecided")

\* Value::True, Value::False
Bool(b) == MkValue("Bool", IF b THEN 1 ELSE 0, FALSE, "", <<>>, <<>>, EmptyMap, "Undecided")

\* Value::String(text, quote)
Str(text) == MkValue("String", 0, FALSE, text, <<>>, <<>>, EmptyMap, "Undecided")

\* Value::List(elems, separator, brackets)
ListValue(elems, sep) == MkValue("List", 0, FALSE, "", elems, <<>>, EmptyMap, sep)

\* Value::Map(SassMap): entries is the sequence of its (key, value) pairs
MapValue(entries) == MkValue("Map", 0, FALSE, "", <<>>, entries, EmptyMap, "Undecided")

\* Value::ArgList(ArgList::new(elems, keywords, separator))
ArgListValue(elems, kw, sep) == MkValue("ArgList", 0, FALSE, "", elems, <<>>, kw, sep)

\* one (key, value) pair of a SassMap
Entry(k, v) == [k |-> k, v |-> v]

\* Value::without_slash: drop the came-from-division marker
without_slash(v) == [v EXCEPT !.slash = FALSE]

\* AstExpr variants
NumberExpr(n) == [e |-> "Number", n |-> n, name |-> "", val |-> Null, args |-> <<>>]

NullExpr == [e |-> "Null", n |-> 0, name |-> "", val |-> Null, args |-> <<>>]

VariableExpr(name) == [e |-> "Variable", n |-> 0, name |-> name, val |-> Null,
     args |-> <<>>]

\* a division of two numbers in a position that allows a slash, with quotient n
DivExpr(n) == [e |-> "BinaryOp", n |-> n, name |-> "", val |-> Null, args |-> <<>>]

\* true
TrueExpr == [e |-> "True", n |-> 0, name |-> "", val |-> Null, args |-> <<>>]

\* an unquoted string without interpolation
StringExpr(text) == [e |-> "String", n |-> 0, name |-> "", val |-> Str(text), args |-> <<>>]

\* calc(arg)
CalculationExpr(args) ==
    [e |-> "Calculation", n |-> 0, name |-> "calc", val |-> Null, args |-> args]

\* a list of literals
ListExpr(elems, sep) ==
    [e |-> "List", n |-> 0, name |-> "", val |-> ListValue(elems, sep), args |-> <<>>]

\* a map of literals
MapExpr(entries) ==
    [e |-> "Map", n |-> 0, name |-> "", val |-> MapValue(entries), args |-> <<>>]

(***************************************************************************)
(* Scope chain (crate::scope::Scopes)                                      *)
(***************************************************************************)
\* Scopes::enter_new_scope
enter_new_scope(sc) == Append(sc, EmptyMap)

\* Scopes::exit_scope
exit_scope(sc) == SubSeq(sc, 1, Len(sc) - 1)

\* the innermost scope of the chain that binds name, 0 if none does
BindingScope(sc, name) ==
    LET holders == {i \in 1..Len(sc) : name \in DOMAIN sc[i]}
    IN  IF holders = {} THEN 0
        ELSE CHOOSE i \in holders : \A j \in holders : j <= i

\* Scopes::var_exists: innermost to outermost, then the global scope
var_exists(sc, gs, name) == BindingScope(sc, name) # 0 \/ name \in DOMAIN gs

\* Scopes::get_var, for a name that exists
get_var(sc, gs, name) ==
    IF BindingScope(sc, name) # 0 THEN sc[BindingScope(sc, name)][name] ELSE gs[name]

\* Scopes::insert_var_last: bind in the innermost open scope
insert_var_last(sc, name, v) == [sc EXCEPT ![Len(sc)] = MapPut(@, name, v)]

\* Scopes::__insert_var: in a semi-global nesting an existing outer binding is
\* updated in place, otherwise the innermost scope binds (and shadows)
scopes_insert_var(sc, gs, name, v, semi) ==
    IF semi /\ BindingScope(sc, name) # 0
    THEN [scopes |-> [sc EXCEPT ![BindingScope(sc, name)] = MapPut(@, name, v)],
          global |-> gs]
    ELSE IF semi /\ name \in DOMAIN gs
         THEN [scopes |-> sc, global |-> MapPut(gs, name, v)]
         ELSE [scopes |-> insert_var_last(sc, name, v), global |-> gs]

\* Environment::at_root
at_root(sc) == sc = <<>>

\* visit_expr on the expression variants of the model
visit_expr(expr, sc, gs) ==
    CASE expr.e = "Number"   -> [ok |-> TRUE, val |-> Num(expr.n)]
      [] expr.e = "Null"     -> [ok |-> TRUE, val |-> Null]
      [] expr.e = "BinaryOp" -> [ok |-> TRUE, val |-> SlashNum(expr.n)]
      [] expr.e = "True"     -> [ok |-> TRUE, val |-> Bool(TRUE)]
      [] expr.e = "String"   -> [ok |-> TRUE, val |-> expr.val]
      [] expr.e = "List"     -> [ok |-> TRUE, val |-> expr.val]
      [] expr.e = "Map"      -> [ok |-> TRUE, val |-> expr.val]
      [] expr.e = "Variable" ->
            IF var_exists(sc, gs, expr.name)
            THEN [ok |-> TRUE, val |-> get_var(sc, gs, expr.name)]
            ELSE [ok |-> FALSE, val |-> Null]

\* visit_calculation_value on a Number, Variable, FunctionCall, If or
\* Calculation argument: "ok" with the argument, "err" when visit_expr
\* returned Err, "panic" at the todo!() of the catch-all arm
visit_calculation_value(expr, sc, gs) ==
    LET result == visit_expr(expr, sc, gs)
    IN  IF ~result.ok THEN [status |-> "err", arg |-> Null]
        ELSE IF result.val.kind \in {"Dimension", "Calculation", "String"}
        THEN [status |-> "ok", arg |-> result.val]
        ELSE [status |-> "panic", arg |-> Null]

\* SassCalculation::calc: a number stays a number, any other argument is
\* kept in a calculation
calc(arg) ==
    IF arg.kind = "Dimension" THEN arg
    ELSE MkValue("Calculation", 0, FALSE, arg.text, <<>>, <<>>, EmptyMap, "Undecided")

\* visit_calculation_expr for calc(), outside @supports
visit_calculation_expr(expr, sc, gs) ==
    LET a == visit_calculation_value(expr.args[1], sc, gs)
    IN  [status |-> a.status, val |-> IF a.status = "ok" THEN calc(a.arg) ELSE Null]

\* visit_expr on the value of a declaration, with the panic of a calculation
visit_style_value(expr, sc, gs) ==
    IF expr.e = "Calculation"
    THEN LET c == visit_calculation_expr(expr, sc, gs)
         IN  [ok |-> c.status = "ok", panic |-> c.status = "panic", val |-> c.val]
    ELSE LET r == visit_expr(expr, sc, gs)
         IN  [ok |-> r.ok, panic |-> FALSE, val |-> r.val]

(***************************************************************************)
(* Variable declarations                                                   *)
(***************************************************************************)
\* names and value expressions the model declares variables with
VarNames == {"a", "b"}

DeclExprs == {NumberExpr(1), NullExpr, DivExpr(2), VariableExpr("a")}

Namespaces == {None}

NoDecl == [name |-> "", value |-> NullExpr, is_guarded |-> FALSE,
           is_global |-> FALSE, namespace |-> None]

\* Environment::new and the flags and module_config of Visitor::new
InitEnv ==
    /\ scopes = <<>>
    /\ global_scope = EmptyMap
    /\ in_semi_global = TRUE
    /\ module_config = EmptyMap

\* the configurations a caller hands to the visitor through its public
\* module_config field: none, an override of $a, a null override of $a
ModuleConfigs == {EmptyMap, [n \in {"a"} |-> Num(7)], [n \in {"a"} |-> Null]}

\* Environment::new, with a module_config a caller has set
InitConfiguredEnv ==
    /\ scopes = <<>>
    /\ global_scope = EmptyMap
    /\ in_semi_global = TRUE
    /\ module_config \in ModuleConfigs

InitVar ==
    /\ frames = <<>>
    /\ decl_count = 0
    /\ last_decl = [decl |-> NoDecl, evaluated |-> FALSE, result |-> "none",
                    printed |-> <<>>]

\* with_scope(semi_global, when), up to the callback
EnterWithScope(semi_global, when) ==
    /\ Len(frames) < MaxDepth
    /\ frames' = Append(frames, [was |-> in_semi_global, pushed |-> when])
    /\ in_semi_global' = (semi_global /\ in_semi_global)
    /\ scopes' = IF when THEN enter_new_scope(scopes) ELSE scopes
    /\ UNCHANGED <<global_scope, module_config, decl_count, last_decl>>
    /\ UNCHANGED <<vars_tree, vars_call, vars_for, vars_eval, warnings>>

\* the scope @if/@each/@for open around their body: enter_new_scope only
EnterControlFlow ==
    /\ Len(frames) < MaxDepth
    /\ frames' = Append(frames, [was |-> in_semi_global, pushed |-> TRUE])
    /\ scopes' = enter_new_scope(scopes)
    /\ UNCHANGED <<global_scope, in_semi_global, module_config, decl_count, last_decl>>
    /\ UNCHANGED <<vars_tree, vars_call, vars_for, vars_eval, warnings>>

\* the callback returned: restore the flag, exit_scope if one was entered
ExitScope ==
    /\ frames # <<>>
    /\ LET f == frames[Len(frames)]
       IN  /\ in_semi_global' = f.was
           /\ scopes' = IF f.pushed THEN exit_scope(scopes) ELSE scopes
    /\ frames' = SubSeq(frames, 1, Len(frames) - 1)
    /\ UNCHANGED <<global_scope, module_config, decl_count, last_decl>>
    /\ UNCHANGED <<vars_tree, vars_call, vars_for, vars_eval, warnings>>

\* whether the !default guard of visit_variable_decl returns early
\* a plausible slip: any existing binding, null or not, blocks the assignment
guard_skips_on_any_binding(decl, sc, gs) ==
    decl.is_guarded /\ var_exists(sc, gs, decl.name)

guard_skips(decl, sc, gs) ==
    /\ decl.is_guarded
    /\ var_exists(sc, gs, decl.name)
    /\ get_var(sc, gs, decl.name) # Null

\* emit_warning: eprintln!, unless Options::quiet
emit_warning(log, q, message, span) ==
    IF q THEN log ELSE Append(log, [message |-> message, span |-> span])

\* the deprecation warning of a !global declaration of a name the global scope lacks
global_decl_warning(decl, sc, gs) ==
    IF decl.is_global /\ decl.name \notin DOMAIN gs
    THEN Some(IF at_root(sc) THEN "!global is unnecessary at the root"
              ELSE "!global won't be able to declare new variables")
    ELSE None

\* where visit_variable_decl writes the value
\* a plausible slip: !global in a nested scope is treated as a local declaration
decl_writes_global_at_root_only(decl, sc) == at_root(sc)

decl_writes_global(decl, sc) == decl.is_global \/ at_root(sc)

\* visit_variable_decl as a function of the state it reads
variable_decl_outcome(decl, sc, gs, semi, config) ==
    IF /\ decl.is_guarded
       /\ decl.namespace = None
       /\ at_root(sc)
       /\ decl.name \in DOMAIN config
       /\ config[decl.name] # Null
    THEN \* Environment::insert_var is todo!()
         [scopes |-> sc, global |-> gs, evaluated |-> FALSE, result |-> "panic",
          warning |-> None]
    ELSE IF guard_skips(decl, sc, gs)
    THEN [scopes |-> sc, global |-> gs, evaluated |-> FALSE, result |-> "ok",
          warning |-> None]
    ELSE LET warning == global_decl_warning(decl, sc, gs)
             r == visit_expr(decl.value, sc, gs)
             value == without_slash(r.val)
         IN  IF ~r.ok
             THEN [scopes |-> sc, global |-> gs, evaluated |-> TRUE, result |-> "err",
                   warning |-> warning]
             ELSE IF decl_writes_global(decl, sc)
             THEN [scopes |-> sc, global |-> MapPut(gs, decl.name, value),
                   evaluated |-> TRUE, result |-> "ok", warning |-> warning]
             ELSE LET ins == scopes_insert_var(sc, gs, decl.name, value, semi)
                  IN  [scopes |-> ins.scopes, global |-> ins.global,
                       evaluated |-> TRUE, result |-> "ok", warning |-> warning]

\* visit_variable_decl
visit_variable_decl(decl) ==
    /\ decl_count < MaxDecls
    /\ LET o == variable_decl_outcome(decl, scopes, global_scope, in_semi_global,
                                      module_config)
       IN  /\ scopes' = o.scopes
           /\ global_scope' = o.global
           /\ last_decl' = [decl |-> decl, evaluated |-> o.evaluated, result |-> o.result,
                             printed |-> IF o.warning = None THEN <<>>
                                         ELSE emit_warning(<<>>, quiet, o.warning[1],
                                                           decl.name)]
    /\ decl_count' = decl_count + 1
    /\ UNCHANGED <<in_semi_global, module_config, frames>>
    /\ UNCHANGED <<vars_tree, vars_call, vars_for, vars_eval, warnings>>

VisitVariableDecl ==
    \E name \in VarNames : \E value \in DeclExprs :
    \E guarded \in BOOLEAN : \E global \in BOOLEAN : \E ns \in Namespaces :
        visit_variable_decl([name |-> name, value |-> value, is_guarded |-> guarded,
                             is_global |-> global, namespace |-> ns])

NextVar ==
    \/ \E sg \in BOOLEAN : \E when \in BOOLEAN : EnterWithScope(sg, when)
    \/ EnterControlFlow
    \/ ExitScope
    \/ VisitVariableDecl

(***************************************************************************)
(* Call-argument evaluation (eval_args)                                    *)
(***************************************************************************)
\* ArgumentResult, or how eval_args ended otherwise: status is "ok", "err"
\* (an Err was returned) or "panic" (a todo!() was hit)
ArgumentResult(status, positional, named, separator) ==
    [status |-> status, positional |-> positional, named |-> named,
     separator |-> separator]

ArgumentErr == ArgumentResult("err", <<>>, EmptyMap, "Undecided")

ArgumentPanic == ArgumentResult("panic", <<>>, EmptyMap, "Undecided")

\* the loop over arguments.positional: visit_expr, then without_slash
RECURSIVE eval_positional(_, _, _)
eval_positional(exprs, sc, gs) ==
    IF exprs = <<>>
    THEN [ok |-> TRUE, vals |-> <<>>]
    ELSE LET r == visit_expr(Head(exprs), sc, gs)
             more == eval_positional(Tail(exprs), sc, gs)
         IN  IF ~r.ok
             THEN [ok |-> FALSE, vals |-> <<>>]
             ELSE [ok |-> more.ok, vals |-> <<without_slash(r.val)>> \o more.vals]

\* the loop over arguments.named
eval_named(exprs, sc, gs) ==
    [ok   |-> \A k \in DOMAIN exprs : visit_expr(exprs[k], sc, gs).ok,
     vals |-> [k \in DOMAIN exprs |-> without_slash(visit_expr(exprs[k], sc, gs).val)]]

\* add_rest_map: string keys become named arguments, any other key is todo!()
RECURSIVE add_rest_map(_, _)
add_rest_map(named, entries) ==
    IF entries = <<>>
    THEN [panic |-> FALSE, named |-> named]
    ELSE IF Head(entries).k.kind = "String"
         THEN add_rest_map(MapPut(named, Head(entries).k.text, Head(entries).v),
                           Tail(entries))
         ELSE [panic |-> TRUE, named |-> named]

\* elems.into_iter().map(|e| self.without_slash(e))
without_slash_all(elems) == [i \in 1..Len(elems) |-> without_slash(elems[i])]

\* the match on the value of the rest expression
apply_rest(positional, named, rest) ==
    CASE rest.kind = "Map" ->
            LET m == add_rest_map(named, rest.entries)
            IN  [panic |-> m.panic, positional |-> positional, named |-> m.named,
                 separator |-> "Undecided"]
      [] rest.kind = "List" ->
            [panic |-> FALSE, positional |-> positional \o without_slash_all(rest.elems),
             named |-> named, separator |-> rest.sep]
      [] rest.kind = "ArgList" ->
            [panic |-> FALSE, positional |-> positional \o without_slash_all(rest.elems),
             named |-> [k \in (DOMAIN named) \cup (DOMAIN rest.kw) |->
                          IF k \in DOMAIN rest.kw THEN without_slash(rest.kw[k])
                          ELSE named[k]],
             separator |-> rest.sep]
      [] OTHER ->
            [panic |-> FALSE, positional |-> Append(positional, without_slash(rest)),
             named |-> named, separator |-> "Undecided"]

\* eval_args
eval_args(arguments, sc, gs) ==
    LET pos == eval_positional(arguments.positional, sc, gs)
        nam == eval_named(arguments.named, sc, gs)
    IN  IF ~pos.ok \/ ~nam.ok THEN ArgumentErr
        ELSE IF arguments.rest = None
        THEN ArgumentResult("ok", pos.vals, nam.vals, "Undecided")
        ELSE LET rest == visit_expr(arguments.rest[1], sc, gs)
                 a == apply_rest(pos.vals, nam.vals, rest.val)
             IN  IF ~rest.ok THEN ArgumentErr
                 ELSE IF a.panic THEN ArgumentPanic
                 ELSE IF arguments.keyword_rest = None
                 THEN \* the separator of the rest list is not passed on here
                      ArgumentResult("ok", a.positional, a.named, "Undecided")
                 ELSE LET kw == visit_expr(arguments.keyword_rest[1], sc, gs)
                          m == add_rest_map(a.named, kw.val.entries)
                      IN  IF ~kw.ok THEN ArgumentErr
                          ELSE IF kw.val.kind # "Map" THEN ArgumentPanic
                          ELSE IF m.panic THEN ArgumentPanic
                          ELSE ArgumentResult("ok", a.positional, m.named, a.separator)

(***************************************************************************)
(* Argument binding (run_user_defined_callable)                            *)
(***************************************************************************)
\* one declared parameter: name and Option<default expression>
Argument(name, default) == [name |-> name, default |-> default]

\* ArgumentDeclaration: the declared parameters and the Option<rest parameter>
ArgumentDeclaration(args, rest) == [args |-> args, rest |-> rest]

\* ArgumentInvocation
ArgumentInvocation(positional, named, rest, keyword_rest) ==
    [positional |-> positional, named |-> named, rest |-> rest,
     keyword_rest |-> keyword_rest]

NoError == [kind |-> "none", name |-> "", n |-> 0]

DeclaredNames(decl) == {decl.args[i].name : i \in 1..Len(decl.args)}

\* ArgumentDeclaration::verify: the arity check.  Without a rest parameter,
\* more positional values than declared parameters, or a named argument that
\* is no declared parameter, is an error naming the count or the argument; a
\* declared parameter that gets no value and has no default is an error too.
verify(decl, num_positional, named) ==
    LET unknown == (DOMAIN named) \ DeclaredNames(decl)
        missing == {i \in 1..Len(decl.args) :
                      /\ i > num_positional
                      /\ decl.args[i].name \notin DOMAIN named
                      /\ decl.args[i].default = None}
    IN  IF decl.rest = None /\ num_positional > Len(decl.args)
        THEN [kind |-> "too_many", name |-> "", n |-> num_positional]
        ELSE IF decl.rest = None /\ unknown # {}
        THEN [kind |-> "unknown_name", name |-> CHOOSE k \in unknown : TRUE, n |-> 0]
        ELSE IF missing # {}
        THEN [kind |-> "missing",
              name |-> decl.args[CHOOSE i \in missing : \A j \in missing : i <= j].name,
              n |-> 0]
        ELSE NoError

\* a plausible slip: the result of verify is dropped
check_arity_ignored(decl, evaluated) == NoError

\* func.arguments().verify(evaluated.positional.len(), &evaluated.named)?
check_arity(decl, evaluated) ==
    verify(decl, Len(evaluated.positional), evaluated.named)

\* the loop `for i in 0..min_len`: the i-th parameter takes the i-th positional
RECURSIVE bind_positional(_, _, _, _)
bind_positional(sc, args, positional, i) ==
    IF i > Len(args) \/ i > Len(positional)
    THEN sc
    ELSE bind_positional(insert_var_last(sc, args[i].name, positional[i]),
                         args, positional, i + 1)

\* a plausible slip: a remaining parameter never looks at the named arguments
named_value_ignored(named, name) == None

\* evaluated.named.remove(&argument.name)
named_value(named, name) ==
    IF name \in DOMAIN named THEN Some(named[name]) ELSE None

\* the loop over additional_declared_args, from parameter i on; st carries the
\* scopes and the named arguments not yet consumed
RECURSIVE bind_additional(_, _, _, _)
bind_additional(st, args, i, gs) ==
    IF st.status # "ok" \/ i > Len(args)
    THEN st
    ELSE LET name == args[i].name
             given == named_value(st.named, name)
         IN  IF given # None
             THEN bind_additional(
                      [st EXCEPT !.scopes = insert_var_last(@, name, given[1]),
                                 !.named = MapRemove(@, name)],
                      args, i + 1, gs)
             ELSE IF args[i].default = None
             THEN [st EXCEPT !.status = "panic"]      \* unwrap() on None
             ELSE LET r == visit_expr(args[i].default[1], st.scopes, gs)
                  IN  IF ~r.ok
                      THEN [st EXCEPT !.status = "err"]
                      ELSE bind_additional(
                               [st EXCEPT !.scopes =
                                    insert_var_last(@, name, without_slash(r.val))],
                               args, i + 1, gs)

\* the argument list bound to the rest parameter
rest_arg_list(decl, evaluated, named) ==
    ArgListValue(
        IF Len(evaluated.positional) > Len(decl.args)
        THEN SubSeq(evaluated.positional, Len(decl.args) + 1, Len(evaluated.positional))
        ELSE <<>>,
        named,
        IF evaluated.separator = "Undecided" THEN "Comma" ELSE "Space")

\* everything run_user_defined_callable does inside the fresh scope before
\* it runs the body: [status, scopes, named, has_arg_list]
bind_arguments(decl, evaluated, sc, gs) ==
    LET pushed == enter_new_scope(sc)
        b1 == bind_positional(pushed, decl.args, evaluated.positional, 1)
        b2 == bind_additional([status |-> "ok", scopes |-> b1, named |-> evaluated.named],
                              decl.args, Len(evaluated.positional) + 1, gs)
    IN  IF b2.status # "ok"
        THEN [status |-> b2.status, scopes |-> sc, named |-> b2.named,
              has_arg_list |-> FALSE]
        ELSE IF decl.rest = None
        THEN [status |-> "ok", scopes |-> b2.scopes, named |-> b2.named,
              has_arg_list |-> FALSE]
        ELSE [status |-> "ok",
              scopes |-> insert_var_last(b2.scopes, decl.rest[1],
                                         rest_arg_list(decl, evaluated, b2.named)),
              named |-> b2.named,
              has_arg_list |-> TRUE]

\* the declarations and invocations the model calls with
Declarations ==
    { ArgumentDeclaration(<<Argument("a", None), Argument("b", Some(NumberExpr(2)))>>, None),
      ArgumentDeclaration(<<Argument("a", None), Argument("b", None)>>, None),
      ArgumentDeclaration(<<Argument("a", None), Argument("b", Some(VariableExpr("a")))>>,
                          None),
      ArgumentDeclaration(<<Argument("a", None)>>, Some("r")),
      ArgumentDeclaration(<<Argument("a", None), Argument("b", Some(NumberExpr(2)))>>,
                          Some("r")) }

PositionalPool == <<NumberExpr(1), DivExpr(5), NumberExpr(6)>>

PositionalChoices == {SubSeq(PositionalPool, 1, k) : k \in 0..Len(PositionalPool)}

NamedChoices ==
    {EmptyMap, MapPut(EmptyMap, "b", NumberExpr(3)), MapPut(EmptyMap, "c", NumberExpr(4))}

RestChoices ==
    { None,
      Some(ListExpr(<<Num(7), Num(8)>>, "Space")),
      Some(MapExpr(<<Entry(Str("c"), Num(9))>>)),
      Some(MapExpr(<<Entry(Num(1), Num(9))>>)),
      Some(VariableExpr("r")),
      Some(NumberExpr(7)) }

KeywordRestChoices ==
    { None,
      Some(MapExpr(<<Entry(Str("b"), Num(3))>>)),
      Some(NumberExpr(1)) }

\* invocations written at the top level of a stylesheet: without a rest
\* argument, and with one (the parser accepts a keyword-rest argument only
\* after a rest argument)
Invocations ==
    { ArgumentInvocation(p, n, None, None) :
        <<p, n>> \in PositionalChoices \X NamedChoices }
    \cup
    { ArgumentInvocation(t[1], t[2], t[3], t[4]) :
        t \in {SubSeq(PositionalPool, 1, k) : k \in 0..1}
              \X {EmptyMap, MapPut(EmptyMap, "c", NumberExpr(4))}
              \X (RestChoices \ {None, Some(VariableExpr("r"))})
              \X KeywordRestChoices }

\* invocations written in the body of a callable: they pass its parameters on
ForwardingInvocations ==
    { ArgumentInvocation(<<>>, EmptyMap, Some(VariableExpr("r")), None),
      ArgumentInvocation(<<VariableExpr("a")>>, EmptyMap, Some(VariableExpr("r")), None),
      ArgumentInvocation(<<VariableExpr("a")>>, EmptyMap, Some(VariableExpr("r")),
                         Some(MapExpr(<<Entry(Str("b"), Num(3))>>))) }

NoCall == [decl |-> ArgumentDeclaration(<<>>, None),
           inv |-> ArgumentInvocation(<<>>, EmptyMap, None, None),
           evaluated |-> ArgumentResult("none", <<>>, EmptyMap, "Undecided"),
           rest_value |-> None,
           outcome |-> "none", error |-> NoError, callee |-> EmptyMap,
           body_ran |-> FALSE]

InitCall ==
    /\ call_stack = <<>>
    /\ last_call = NoCall
    /\ call_pc = "run"

\* what the rest expression of an invocation evaluates to, if it has one and
\* the evaluation succeeds
rest_value(inv, sc, gs) ==
    IF inv.rest = None \/ ~visit_expr(inv.rest[1], sc, gs).ok
    THEN None
    ELSE Some(visit_expr(inv.rest[1], sc, gs).val)

\* run_user_defined_callable up to and including the start of the body
CallEnter(decl, inv) ==
    /\ call_pc = "run"
    /\ Len(call_stack) < MaxCallDepth
    /\ LET evaluated == eval_args(inv, scopes, global_scope)
           err == check_arity(decl, evaluated)
           b == bind_arguments(decl, evaluated, scopes, global_scope)
           rec == [decl |-> decl, inv |-> inv, evaluated |-> evaluated,
                   rest_value |-> rest_value(inv, scopes, global_scope),
                   outcome |-> "none", error |-> NoError, callee |-> EmptyMap,
                   body_ran |-> FALSE]
       IN  IF evaluated.status # "ok"
           THEN /\ last_call' = [rec EXCEPT !.outcome = evaluated.status]
                /\ call_pc' = IF evaluated.status = "panic" THEN "panicked" ELSE "run"
                /\ UNCHANGED <<call_stack, scopes, in_semi_global>>
           ELSE IF err # NoError
           THEN /\ last_call' = [rec EXCEPT !.outcome = "err", !.error = err]
                /\ UNCHANGED <<call_stack, call_pc, scopes, in_semi_global>>
           ELSE IF b.status # "ok"
           THEN /\ last_call' = [rec EXCEPT !.outcome = b.status]
                /\ call_pc' = IF b.status = "panic" THEN "panicked" ELSE "run"
                /\ UNCHANGED <<call_stack, scopes, in_semi_global>>
           ELSE /\ last_call' = [rec EXCEPT !.outcome = "entered",
                                            !.callee = b.scopes[Len(b.scopes)],
                                            !.body_ran = TRUE]
                /\ call_stack' = Append(call_stack,
                       [call |-> last_call', named |-> b.named,
                        has_arg_list |-> b.has_arg_list, was |-> in_semi_global])
                /\ scopes' = b.scopes
                /\ in_semi_global' = FALSE
                /\ UNCHANGED call_pc
    /\ UNCHANGED <<global_scope, module_config>>
    /\ UNCHANGED <<vars_tree, vars_decl, vars_for, vars_eval, warnings>>

\* the body returned (Ok or Err): the check after the call, then exit_scope
CallExit(body_ok) ==
    /\ call_pc = "run"
    /\ call_stack # <<>>
    /\ LET f == call_stack[Len(call_stack)]
       IN  IF ~body_ok \/ ~f.has_arg_list \/ DOMAIN f.named = {}
           THEN /\ last_call' = [f.call EXCEPT !.outcome = IF body_ok THEN "ok" ELSE "err"]
                /\ call_stack' = SubSeq(call_stack, 1, Len(call_stack) - 1)
                /\ scopes' = exit_scope(scopes)
                /\ in_semi_global' = f.was
                /\ UNCHANGED call_pc
           ELSE \* todo!("argument list mutable")
                /\ last_call' = [f.call EXCEPT !.outcome = "panic"]
                /\ call_pc' = "panicked"
                /\ UNCHANGED <<call_stack, scopes, in_semi_global>>
    /\ UNCHANGED <<global_scope, module_config>>
    /\ UNCHANGED <<vars_tree, vars_decl, vars_for, vars_eval, warnings>>

RunUserDefinedCallable ==
    \E decl \in Declarations :
    \E inv \in (IF call_stack = <<>> THEN Invocations ELSE ForwardingInvocations) :
        CallEnter(decl, inv)

BodyReturns == \E body_ok \in BOOLEAN : CallExit(body_ok)

NextCall == RunUserDefinedCallable \/ BodyReturns

(***************************************************************************)
(* @for (visit_for_stmt)                                                   *)
(***************************************************************************)
\* a Number: the rational num / den with den > 0
Rational(num, den) == [num |-> num, den |-> den]

\* f64::to_i64 on a finite number in range: truncation towards zero
to_i64(x) ==
    IF x.num >= 0 THEN x.num \div x.den ELSE -((-x.num) \div x.den)

\* i64, scaled down: the least and the greatest value of the integer type.
\* f64::to_i64 can yield the least value (-2^63 is an f64) and cannot yield
\* the greatest (2^63 - 1 is not)
I64_MAX == MaxBound + 1
I64_MIN == -I64_MAX - 1

\* a + b leaves the integer type: a panic in a build with overflow checks
overflows(a, b) == a + b > I64_MAX \/ a + b < I64_MIN

\* a + b in a build without overflow checks
wrapping_add(a, b) ==
    LET sum == a + b
        modulus == I64_MAX - I64_MIN + 1
    IN  IF sum > I64_MAX THEN sum - modulus
        ELSE IF sum < I64_MIN THEN sum + modulus
        ELSE sum

\* the numbers the bounds of an @for evaluate to
ForNumbers ==
    {Rational(n, 1) : n \in (-1)..MaxBound} \cup {Rational(3, 2), Rational(-1, 2)}
        \cup {Rational(I64_MIN, 1)}

\* AstFor, its two bound expressions already evaluated to unitless numbers
AstFor(variable, from, to, is_exclusive) ==
    [variable |-> variable, from |-> from, to |-> to, is_exclusive |-> is_exclusive]

ForStmts ==
    {AstFor("i", from, to, excl) : from \in ForNumbers, to \in ForNumbers, excl \in BOOLEAN}

NoFor == AstFor("", Rational(0, 1), Rational(0, 1), TRUE)

\* the locals of visit_for_stmt
ForLocals(pc, to, direction, i, result) ==
    [pc |-> pc, to |-> to, direction |-> direction, i |-> i, result |-> result]

InitFor ==
    /\ for_stmt = NoFor
    /\ for_loop = ForLocals("idle", 0, 1, 0, None)
    /\ for_iters = <<>>

\* let direction = if from > to { -1 } else { 1 }
for_direction(from, to) == IF from > to THEN -1 ELSE 1

\* the terminal bound when the inclusive adjustment is left out
for_terminal_never_adjusted(to, direction, is_exclusive) == to

\* if !for_stmt.is_exclusive { to += direction; }
for_terminal(to, direction, is_exclusive) ==
    IF ~is_exclusive THEN wrapping_add(to, direction) ELSE to

\* visit_for_stmt up to the first test of the while loop: an empty range
\* returns Ok(None) at once, any other range enters a new scope; when
\* `to += direction` overflows the build decides between a panic and wrapping
VisitForStmt ==
    /\ for_loop.pc \in {"idle", "done"}
    /\ \E fs \in ForStmts :
        LET from == to_i64(fs.from)
            direction == for_direction(from, to_i64(fs.to))
            to == for_terminal(to_i64(fs.to), direction, fs.is_exclusive)
        IN  /\ for_stmt' = fs
            /\ for_iters' = <<>>
            /\ \/ /\ ~fs.is_exclusive
                  /\ overflows(to_i64(fs.to), direction)
                  /\ for_loop' = ForLocals("panicked", to_i64(fs.to), direction, from, None)
                  /\ scopes' = scopes
               \/ IF from = to
                  THEN /\ for_loop' = ForLocals("done", to, direction, from, None)
                       /\ scopes' = scopes
                  ELSE /\ for_loop' = ForLocals("loop", to, direction, from, None)
                       /\ scopes' = enter_new_scope(scopes)
    /\ UNCHANGED <<global_scope, in_semi_global, module_config>>
    /\ UNCHANGED <<vars_tree, vars_decl, vars_call, vars_eval, warnings>>

\* while i != to: bind the loop variable in the innermost scope
ForBind ==
    /\ for_loop.pc = "loop"
    /\ for_loop.i # for_loop.to
    /\ LET bound == insert_var_last(scopes, for_stmt.variable, Num(for_loop.i))
       IN  /\ scopes' = bound
           /\ for_iters' = Append(for_iters, bound[Len(bound)][for_stmt.variable].n)
    /\ for_loop' = [for_loop EXCEPT !.pc = "body"]
    /\ UNCHANGED <<for_stmt, global_scope, in_semi_global, module_config>>
    /\ UNCHANGED <<vars_tree, vars_decl, vars_call, vars_eval, warnings>>

\* the value a body statement `$i: ...` gives the loop variable
Reassigned == MaxBound + 1

\* i += direction: in a build without overflow checks the counter wraps
step_counter(i) ==
    [for_loop EXCEPT !.pc = "loop", !.i = wrapping_add(i, for_loop.direction)]

\* the statements of the body were visited: one of them returned an error
\* (`?`, the scope stays on the chain), one of them yielded a value
\* (break 'outer, exit_scope, Ok(result)), or none did (i += direction),
\* whether the body left the loop variable alone (next) or assigned it (assign)
ForBody(outcome) ==
    /\ for_loop.pc = "body"
    /\ CASE outcome = "error" ->
              /\ for_loop' = [for_loop EXCEPT !.pc = "failed"]
              /\ scopes' = scopes
         [] outcome = "return" ->
              /\ for_loop' = [for_loop EXCEPT !.pc = "done", !.result = Some(Num(0))]
              /\ scopes' = exit_scope(scopes)
         [] outcome = "next" ->
              /\ for_loop' = step_counter(for_loop.i)
              /\ scopes' = scopes
         [] outcome = "assign" ->
              /\ for_loop' = step_counter(for_loop.i)
              /\ scopes' = insert_var_last(scopes, for_stmt.variable, Num(Reassigned))
    /\ UNCHANGED <<for_stmt, for_iters, global_scope, in_semi_global, module_config>>
    /\ UNCHANGED <<vars_tree, vars_decl, vars_call, vars_eval, warnings>>

ForBodyVisited == \E outcome \in {"next", "assign", "return", "error"} : ForBody(outcome)

\* the while test fails: exit_scope and Ok(result)
ForExit ==
    /\ for_loop.pc = "loop"
    /\ for_loop.i = for_loop.to
    /\ for_loop' = [for_loop EXCEPT !.pc = "done"]
    /\ scopes' = exit_scope(scopes)
    /\ UNCHANGED <<for_stmt, for_iters, global_scope, in_semi_global, module_config>>
    /\ UNCHANGED <<vars_tree, vars_decl, vars_call, vars_eval, warnings>>

NextFor == VisitForStmt \/ ForBind \/ ForBodyVisited \/ ForExit

(***************************************************************************)
(* Media queries (merge_media_queries)                                     *)
(*                                                                         *)
(* A query is a modifier, a media type and a set of conditions; "" stands  *)
(* for an absent modifier or type.                                         *)
(***************************************************************************)
MediaQuery(modifier, type, conditions) ==
    [modifier |-> modifier, type |-> type, conditions |-> conditions]

\* (c), screen, print, not screen, screen and (c)
MediaQueries ==
    {MediaQuery("", "", {"c"}), MediaQuery("", "screen", {}), MediaQuery("", "print", {}),
     MediaQuery("not", "screen", {}), MediaQuery("", "screen", {"c"})}

\* the well-formed queries, in a fixed order
AllQueries ==
    <<MediaQuery("", "", {"c"}),
      MediaQuery("", "screen", {}), MediaQuery("", "screen", {"c"}),
      MediaQuery("", "print", {}), MediaQuery("", "print", {"c"}),
      MediaQuery("not", "screen", {}), MediaQuery("not", "screen", {"c"}),
      MediaQuery("not", "print", {}), MediaQuery("not", "print", {"c"})>>

\* MediaQueryMergeResult
MergeEmpty == [tag |-> "Empty", query |-> MediaQuery("", "", {})]

MergeUnrepresentable == [tag |-> "Unrepresentable", query |-> MediaQuery("", "", {})]

MergeSuccess(q) == [tag |-> "Success", query |-> q]

matches_all_types(q) == q.type = ""

\* MediaQuery::merge: the intersection of two queries
MediaQueryMerge(this, other) ==
    LET both == this.conditions \cup other.conditions
        negative == IF this.modifier = "not" THEN this ELSE other
        positive == IF this.modifier = "not" THEN other ELSE this
    IN  IF this.type = "" /\ other.type = ""
        THEN MergeSuccess(MediaQuery("", "", both))
        ELSE IF (this.modifier = "not") # (other.modifier = "not")
        THEN IF this.type = other.type
             THEN IF negative.conditions \subseteq positive.conditions
                  THEN MergeEmpty ELSE MergeUnrepresentable
             ELSE IF matches_all_types(this) \/ matches_all_types(other)
                  THEN MergeUnrepresentable
                  ELSE MergeSuccess(positive)
        ELSE IF this.modifier = "not"
        THEN IF this.type # other.type THEN MergeUnrepresentable
             ELSE IF this.conditions \subseteq other.conditions THEN MergeSuccess(other)
             ELSE IF other.conditions \subseteq this.conditions THEN MergeSuccess(this)
             ELSE MergeUnrepresentable
        ELSE IF matches_all_types(this)
        THEN MergeSuccess(MediaQuery(other.modifier, other.type, both))
        ELSE IF matches_all_types(other)
        THEN MergeSuccess(MediaQuery(this.modifier, this.type, both))
        ELSE IF this.type # other.type THEN MergeEmpty
        ELSE MergeSuccess(MediaQuery(this.modifier, this.type, both))

\* a plausible slip of the match: an unrepresentable pair is only fatal while
\* nothing has been merged yet
merge_arm_unrepresentable_first_only(result, queries) ==
    CASE result.tag = "Empty" -> Some(queries)
      [] result.tag = "Unrepresentable" -> IF queries = <<>> THEN None ELSE Some(queries)
      [] result.tag = "Success" -> Some(Append(queries, result.query))

\* the match on query1.merge(query2): continue, return None, or push; None
\* stands for the early return
merge_arm(result, queries) ==
    CASE result.tag = "Empty" -> Some(queries)
      [] result.tag = "Unrepresentable" -> None
      [] result.tag = "Success" -> Some(Append(queries, result.query))

RECURSIVE merge_inner_loop(_, _, _)
\* for query2 in queries2
merge_inner_loop(query1, queries2, queries) ==
    IF queries2 = <<>> THEN Some(queries)
    ELSE LET r == merge_arm(MediaQueryMerge(query1, Head(queries2)), queries)
         IN  IF r = None THEN None ELSE merge_inner_loop(query1, Tail(queries2), r[1])

RECURSIVE merge_outer_loop(_, _, _)
\* for query1 in queries1
merge_outer_loop(queries1, queries2, queries) ==
    IF queries1 = <<>> THEN Some(queries)
    ELSE LET r == merge_inner_loop(Head(queries1), queries2, queries)
         IN  IF r = None THEN None ELSE merge_outer_loop(Tail(queries1), queries2, r[1])

\* a plausible slip of the inner loop: only the first query of queries2 is merged
merge_media_queries_first_query_only(queries1, queries2) ==
    merge_outer_loop(queries1, SubSeq(queries2, 1, IF queries2 = <<>> THEN 0 ELSE 1), <<>>)

\* merge_media_queries
merge_media_queries(queries1, queries2) == merge_outer_loop(queries1, queries2, <<>>)

\* the query lists merge_media_queries is called on
QueryLists == UNION {[1..n -> MediaQueries] : n \in 0..MaxQueries}

NoMerge == [queries1 |-> <<>>, queries2 |-> <<>>, result |-> None, called |-> FALSE]

\* the call of merge_media_queries of a run
MergeMediaQueries ==
    /\ ~merge_call.called
    /\ \E queries1 \in QueryLists, queries2 \in QueryLists :
          merge_call' = [queries1 |-> queries1, queries2 |-> queries2,
                         result |-> merge_media_queries(queries1, queries2),
                         called |-> TRUE]
    /\ UNCHANGED <<flags, content, visitor_parent, style_rule, ev_program, ev_stack,
                   ev_pending, ev_pc, ev_trace, last_visit, media_queries,
                   media_query_sources, declaration_name, extensions,
                   warnings_emitted, quiet, current_import_path, warnings>>
    /\ UNCHANGED <<vars_tree, vars_env, vars_decl, vars_call, vars_for>>

NextMedia == MergeMediaQueries

RECURSIVE query_index(_, _)
\* the position of a query in AllQueries
query_index(q, k) ==
    IF k > Len(AllQueries) THEN 0
    ELSE IF AllQueries[k] = q THEN k ELSE query_index(q, k + 1)

RECURSIVE media_text(_)
\* query.to_string() joined by ", ": the text of a query list, one digit per query
media_text(queries) ==
    IF queries = <<>> THEN 0
    ELSE media_text(SubSeq(queries, 1, Len(queries) - 1)) * 10
             + query_index(queries[Len(queries)], 1)

RECURSIVE index_set_extend(_, _)
\* IndexSet::extend: the items not yet in the set are appended in order
index_set_extend(set, items) ==
    IF items = <<>> THEN set
    ELSE index_set_extend(IF \E k \in 1..Len(set) : set[k] = Head(items)
                          THEN set ELSE Append(set, Head(items)),
                          Tail(items))

(***************************************************************************)
(* Statement evaluator (visit_stmt)                                        *)
(*                                                                         *)
(* The recursion of visit_stmt is kept as a stack of frames: a frame is a  *)
(* handler (visit_if_stmt, visit_ruleset, run_user_defined_callable, ...)  *)
(* that is visiting the statements of a body.  The result of a completed   *)
(* call that is not Ok(None) travels to the caller through ev_pending.     *)
(***************************************************************************)
\* the ContextFlags the visitor sets, other than IN_SEMI_GLOBAL_SCOPE
FlagNames ==
    {"IN_MIXIN", "IN_FUNCTION", "IN_KEYFRAMES", "IN_UNKNOWN_AT_RULE",
     "AT_ROOT_EXCLUDING_STYLE_RULE", "IN_SUPPORTS_DECLARATION"}

\* ContextFlags::set
set_flag(fl, flag, on) == IF on THEN fl \cup {flag} ELSE fl \ {flag}

\* AstExpr::FunctionCall without arguments
FunctionCallExpr(name) == [e |-> "FunctionCall", n |-> 0, name |-> name, val |-> Null,
     args |-> <<>>]

\* AstVariableDecl
AstVariableDecl(name, value, is_guarded, is_global) ==
    [name |-> name, value |-> value, is_guarded |-> is_guarded,
     is_global |-> is_global, namespace |-> None]

\* AstStmt: one record shape for every variant, id names the statement
BaseStmt(k, id) ==
    [k |-> k, id |-> id, name |-> "", expr |-> NullExpr, cond |-> FALSE,
     vars |-> <<>>, for |-> NoFor, decl |-> NoDecl, has_content |-> FALSE,
     query |-> <<>>, targets |-> <<>>, url |-> <<>>, body |-> <<>>, els |-> <<>>]

AstStyle(id, expr) == [BaseStmt("Style", id) EXCEPT !.expr = expr]

\* name: value { body }
AstStyleNested(id, expr, body) ==
    [BaseStmt("Style", id) EXCEPT !.expr = expr, !.body = body]

\* @import "url" with one Sass import; the url is a relative path
AstImportRule(id, url) == [BaseStmt("ImportRule", id) EXCEPT !.url = url]

\* @extend targets, the target already parsed into a selector list
AstExtend(id, targets) == [BaseStmt("Extend", id) EXCEPT !.targets = targets]

\* @warn expr
AstWarn(id, expr) == [BaseStmt("Warn", id) EXCEPT !.expr = expr]

AstReturn(id, expr) == [BaseStmt("Return", id) EXCEPT !.expr = expr]

AstErrorRule(id) == BaseStmt("ErrorRule", id)

AstDecl(id, decl) == [BaseStmt("VariableDecl", id) EXCEPT !.decl = decl]

\* @if cond { body } @else { els }
AstIf(id, cond, body, els) ==
    [BaseStmt("If", id) EXCEPT !.cond = cond, !.body = body, !.els = els]

\* @each vars in list { body }
AstEach(id, variables, list, body) ==
    [BaseStmt("Each", id) EXCEPT !.vars = variables, !.expr = list, !.body = body]

\* @for over an AstFor header
AstForStmt(id, header, body) ==
    [BaseStmt("For", id) EXCEPT !.for = header, !.body = body]

\* @while cond { body }
AstWhile(id, cond, body) == [BaseStmt("While", id) EXCEPT !.cond = cond, !.body = body]

\* selector { body }
AstRuleSet(id, body) == [BaseStmt("RuleSet", id) EXCEPT !.body = body]

\* @include name, or @include name { body } when has_content
AstInclude(id, name, has_content, body) ==
    [BaseStmt("Include", id) EXCEPT !.name = name, !.has_content = has_content,
                                    !.body = body]

AstContentRule(id) == BaseStmt("ContentRule", id)

\* @name { body }
AstUnknownAtRule(id, name, body) ==
    [BaseStmt("UnknownAtRule", id) EXCEPT !.name = name, !.body = body]

\* @at-root { body } without a query
AstAtRootRule(id, body) == [BaseStmt("AtRootRule", id) EXCEPT !.body = body]

\* @at-root (without: name) { body }
AstAtRootWithout(id, name, body) ==
    [BaseStmt("AtRootRule", id) EXCEPT !.name = name, !.body = body]

\* @media query { body }: query is the list visit_media_queries resolves
AstMedia(id, query, body) == [BaseStmt("Media", id) EXCEPT !.query = query, !.body = body]

\* AstWhile::has_declarations, AstMedia::has_declarations
has_declarations(body) == \E i \in 1..Len(body) : body[i].k = "VariableDecl"

\* StyleSheet, with the mixins and functions its declarations have defined
StyleSheet(mixins, functions, body) ==
    [mixins |-> mixins, functions |-> functions, body |-> body]

\* AstMixin: body and has_content
AstMixin(body, has_content) == [body |-> body, has_content |-> has_content]

\* UserDefinedFunction: the children of its declaration and scope_idx
UserDefinedFunction(children, scope_idx) == [children |-> children, scope_idx |-> scope_idx]

\* CallableContentBlock
CallableContentBlock(body, content_at_decl) ==
    [body |-> body, content_at_decl |-> content_at_decl]

\* SassResult<Option<Value>> other than Ok(None), on its way to the caller
\* an error is (message, span): msg holds the pieces the message is built from
\* and span the statement the error points at
Pending(status, val, msg, span) ==
    [status |-> status, val |-> val, msg |-> msg, span |-> span]

NoPending == Pending("none", Null, <<>>, 0)

\* the state a handler saves and restores, and the state visit_stmt acts on
Ctx(fl, semi, sc, par, cont, sr, mq, mqs) ==
    [flags |-> fl, semi |-> semi, scopes |-> sc, parent |-> par, content |-> cont,
     style_rule |-> sr, media_queries |-> mq, media_query_sources |-> mqs,
     declaration_name |-> None]

CurrentCtx ==
    [Ctx(flags, in_semi_global, scopes, visitor_parent, content, style_rule,
         media_queries, media_query_sources)
        EXCEPT !.declaration_name = declaration_name]

\* the ContextFlags value, bit for bit
ContextFlags(c) == [flags |-> c.flags, semi |-> c.semi]

\* a handler visiting a body: what it saved on entry (saved), the flags when
\* the call started (entry), the statements still to visit (todo)
Frame(kind, stmt, todo, saved, pushed) ==
    [kind |-> kind, stmt |-> stmt, todo |-> todo, items |-> <<>>,
     i |-> 0, to |-> 0, dir |-> 1, started |-> FALSE,
     entry |-> ContextFlags(saved), saved |-> saved, pushed |-> pushed]

\* parser.path of the stylesheet handed to the visitor
MainPath == <<"main.scss">>

NoVisit == [entry |-> ContextFlags(Ctx({}, TRUE, <<>>, None, None, None, None, None)),
            exit |-> ContextFlags(Ctx({}, TRUE, <<>>, None, None, None, None, None)),
            status |-> "none", k |-> ""]

InitEval ==
    /\ flags = {}
    /\ content = None
    /\ visitor_parent = None
    /\ style_rule = None
    /\ ev_program = StyleSheet(EmptyMap, EmptyMap, <<>>)
    /\ ev_stack = <<>>
    /\ ev_pending = NoPending
    /\ ev_pc = "idle"
    /\ ev_trace = <<>>
    /\ last_visit = NoVisit
    /\ media_queries = None
    /\ media_query_sources = None
    /\ merge_call = NoMerge
    /\ declaration_name = None
    /\ extensions = <<>>
    /\ warnings_emitted = {}
    /\ quiet \in BOOLEAN
    /\ current_import_path = MainPath
    /\ warnings = <<>>

\* the end of with_scope: the flag is put back, the scope is left if one was entered
with_scope_exit(f, c) ==
    [c EXCEPT !.semi = f.saved.semi,
              !.scopes = IF f.pushed THEN exit_scope(c.scopes) ELSE c.scopes]

\* a plausible slip: with_parent leaves the parent it set
with_parent_exit_keeps_parent(f, c) == with_scope_exit(f, c)

\* the end of with_parent
with_parent_exit(f, c) == [with_scope_exit(f, c) EXCEPT !.parent = f.saved.parent]

\* self.flags.set(flag, old value)
restore_flag(f, c, flag) ==
    [c EXCEPT !.flags = set_flag(c.flags, flag, flag \in f.saved.flags)]

\* What a handler does between the end of its body and its own return:
\* everything when the body succeeded (ok), and only the part that a `?` does
\* not skip when the body returned an error.

\* a plausible slip: the scope of the loop is never left
control_flow_exit_keeps_scope(f, c, ok) == c

\* visit_if_stmt, visit_each_stmt, visit_for_stmt: exit_scope after the loop
control_flow_exit(f, c, ok) ==
    IF ok THEN [c EXCEPT !.scopes = exit_scope(c.scopes)] ELSE c

\* visit_ruleset: with_parent(..)?, then style_rule_ignoring_at_root and the flag
ruleset_exit(f, c, ok) ==
    LET c1 == with_parent_exit(f, c)
    IN  IF ok
        THEN restore_flag(f, [c1 EXCEPT !.style_rule = f.saved.style_rule],
                          "AT_ROOT_EXCLUDING_STYLE_RULE")
        ELSE c1

\* visit_unknown_at_rule: with_parent(..)?, then IN_KEYFRAMES and IN_UNKNOWN_AT_RULE
unknown_at_rule_exit(f, c, ok) ==
    LET c1 == with_parent_exit(f, c)
    IN  IF ok
        THEN restore_flag(f, restore_flag(f, c1, "IN_KEYFRAMES"), "IN_UNKNOWN_AT_RULE")
        ELSE c1

\* a plausible slip of visit_include_stmt: IN_MIXIN is not put back
include_exit_keeps_in_mixin(f, c, ok) ==
    with_scope_exit(f, [c EXCEPT !.content = f.saved.content])

\* visit_include_stmt: with_content, with_scope and with_environment end inside
\* run_user_defined_callable(..)?, then IN_MIXIN is put back
include_exit(f, c, ok) ==
    LET c1 == with_scope_exit(f, [c EXCEPT !.content = f.saved.content])
    IN  IF ok THEN restore_flag(f, c1, "IN_MIXIN") ELSE c1

\* visit_content_rule: with_scope and with_environment end
content_rule_exit(f, c, ok) ==
    with_scope_exit(f, [c EXCEPT !.content = f.saved.content])

\* AstExpr::FunctionCall: with_scope and with_environment end inside
\* run_function_callable(..)?, then IN_FUNCTION is put back
function_call_exit(f, c, ok) ==
    LET c1 == [with_scope_exit(f, c) EXCEPT !.scopes = f.saved.scopes]
    IN  IF ok THEN restore_flag(f, c1, "IN_FUNCTION") ELSE c1

\* visit_media_rule: with_media_queries and with_parent end
media_exit(f, c, ok) ==
    [with_parent_exit(f, c) EXCEPT
        !.media_queries = f.saved.media_queries,
        !.media_query_sources = f.saved.media_query_sources]

\* the end of visit_style with children: with_scope(..)?, then the name is put back
declaration_exit(f, c, ok) ==
    IF ok THEN [with_scope_exit(f, c) EXCEPT !.declaration_name = f.saved.declaration_name]
    ELSE with_scope_exit(f, c)

\* with_scope_for_at_root: parent and flag are put back after the callback
at_root_exit(f, c, ok) ==
    restore_flag(f, [c EXCEPT !.parent = f.saved.parent], "AT_ROOT_EXCLUDING_STYLE_RULE")

leave(f, c, ok) ==
    CASE f.kind \in {"If", "Each", "For"} -> control_flow_exit(f, c, ok)
      [] f.kind = "While" -> with_scope_exit(f, c)
      [] f.kind = "RuleSet" -> ruleset_exit(f, c, ok)
      [] f.kind = "KeyframesRuleSet" -> with_parent_exit(f, c)
      [] f.kind = "UnknownAtRule" -> unknown_at_rule_exit(f, c, ok)
      [] f.kind = "Include" -> include_exit(f, c, ok)
      [] f.kind = "ContentRule" -> content_rule_exit(f, c, ok)
      [] f.kind = "FunctionCall" -> function_call_exit(f, c, ok)
      [] f.kind = "AtRootRule" -> at_root_exit(f, c, ok)
      [] f.kind = "AtRootInPlace" -> with_scope_exit(f, c)
      [] f.kind = "Media" -> media_exit(f, c, ok)
      [] f.kind = "Declaration" -> declaration_exit(f, c, ok)
      [] OTHER -> c

\* CssTree::add_stmt (add_child under parent or ROOT) as a function of the tree
css_tree_add_stmt(t, child, par) ==
    LET parent_idx == IF par = None THEN ROOT ELSE par[1]
        child_idx == Len(t.stmts)
        old == IF parent_idx \in DOMAIN t.parent_to_child
               THEN t.parent_to_child[parent_idx] ELSE <<>>
    IN  [stmts |-> Append(t.stmts, child),
         parent_to_child |-> MapPut(t.parent_to_child, parent_idx, Append(old, child_idx)),
         child_to_parent |-> MapPut(t.child_to_parent, child_idx, parent_idx),
         added |-> Append(t.added, [stmt |-> child, parent |-> parent_idx])]

CurrentTree ==
    [stmts |-> stmts, parent_to_child |-> parent_to_child,
     child_to_parent |-> child_to_parent, added |-> added]

SetTree(t) ==
    /\ stmts' = t.stmts
    /\ parent_to_child' = t.parent_to_child
    /\ child_to_parent' = t.child_to_parent
    /\ added' = t.added
    /\ UNCHANGED <<tree_pc, output>>

SetCtx(c) ==
    /\ flags' = c.flags
    /\ in_semi_global' = c.semi
    /\ scopes' = c.scopes
    /\ visitor_parent' = c.parent
    /\ content' = c.content
    /\ style_rule' = c.style_rule
    /\ media_queries' = c.media_queries
    /\ media_query_sources' = c.media_query_sources
    /\ declaration_name' = c.declaration_name

\* the innermost frame, the statement visit_stmt is called on next
Top == ev_stack[Len(ev_stack)]

Cur == Head(Top.todo)

Advance == [ev_stack EXCEPT ![Len(ev_stack)].todo = Tail(@)]

Pop == SubSeq(ev_stack, 1, Len(ev_stack) - 1)

\* visit_stmt is about to be called on a statement of variant k
Ready(k) ==
    /\ ev_pc = "running"
    /\ ev_stack # <<>>
    /\ ev_pending.status = "none"
    /\ Top.todo # <<>>
    /\ Cur.k = k

\* res: "enter" for a handler that goes on to visit a body, else what it returned
Trace(val, res) ==
    ev_trace' = Append(ev_trace, [id |-> Cur.id, k |-> Cur.k, val |-> val, res |-> res])

Returned(entry, exit_ctx, status, k) ==
    last_visit' = [entry |-> entry, exit |-> ContextFlags(exit_ctx), status |-> status, k |-> k]

\* what no handler of the evaluator writes
EvalFixedBase ==
    UNCHANGED <<module_config, ev_program, merge_call, quiet, current_import_path,
                vars_decl, vars_call, vars_for>>

EvalFixed == EvalFixedBase /\ UNCHANGED <<extensions, warnings_emitted, warnings>>

\* a handler without a body returns: Ok(None) ("ok"), Ok(Some(val)) ("value"),
\* Err ("error"), or it panics
LeafReturns(status, val, msg, exit_ctx) ==
    /\ ev_stack' = Advance
    /\ ev_pending' = IF status \in {"value", "error"}
                     THEN Pending(status, val, <<msg>>, Cur.id) ELSE NoPending
    /\ ev_pc' = IF status = "panic" THEN "panicked" ELSE ev_pc
    /\ Returned(ContextFlags(CurrentCtx), exit_ctx, status, Cur.k)
    /\ SetCtx(exit_ctx)

\* a handler calls visit_stmt on the statements of a body
Enter(frames_pushed, c) ==
    /\ ev_stack' = Advance \o frames_pushed
    /\ SetCtx(c)
    /\ UNCHANGED <<ev_pending, ev_pc, last_visit>>

\* visit_stylesheet on one of the stylesheets of the model
StartProgram(p) ==
    /\ ev_pc = "idle"
    /\ ev_program' = p
    /\ ev_stack' = <<Frame("Root", BaseStmt("Root", 0), p.body, CurrentCtx, FALSE)>>
    /\ ev_pc' = "running"
    /\ UNCHANGED <<flags, content, visitor_parent, style_rule, ev_pending, ev_trace,
                   last_visit, media_queries, media_query_sources, merge_call,
                   declaration_name, extensions, warnings_emitted, quiet,
                   current_import_path, warnings>>
    /\ UNCHANGED <<vars_tree, vars_env, vars_decl, vars_call, vars_for>>

\* style_rule_exists
style_rule_exists(c) ==
    "AT_ROOT_EXCLUDING_STYLE_RULE" \notin c.flags /\ c.style_rule # None

\* the first check of visit_style: todo!() outside every rule
style_is_legal(c) ==
    style_rule_exists(c) \/ "IN_UNKNOWN_AT_RULE" \in c.flags \/ "IN_KEYFRAMES" \in c.flags

\* the content of a Style node: the number it holds (0 for any other value)
style_value(v) == IF v.kind = "Dimension" THEN v.n ELSE 0

\* visit_style of a declaration whose value is not a call: the node is
\* added under the parent, then the children, if any, are visited in a new
\* scope with declaration_name set to the name of the declaration
VisitStyle ==
    /\ Ready("Style")
    /\ Cur.expr.e # "FunctionCall"
    /\ LET r == visit_style_value(Cur.expr, scopes, global_scope)
           status == IF ~style_is_legal(CurrentCtx) \/ r.panic THEN "panic"
                     ELSE IF ~r.ok THEN "error"
                     ELSE IF Cur.body # <<>> THEN "enter" ELSE "ok"
       IN  /\ Trace(r.val, status)
           /\ IF status = "enter"
              THEN Enter(<<Frame("Declaration", Cur, Cur.body, CurrentCtx, TRUE)>>,
                         [CurrentCtx EXCEPT !.declaration_name = Some(Cur.id),
                                            !.semi = FALSE,
                                            !.scopes = enter_new_scope(scopes)])
              ELSE LeafReturns(status, Null, "Undefined variable.", CurrentCtx)
           /\ IF status \in {"ok", "enter"} /\ r.val.kind # "Null"
              THEN SetTree(css_tree_add_stmt(CurrentTree,
                               NewStmt("Style", style_value(r.val)), visitor_parent))
              ELSE UNCHANGED vars_tree
    /\ UNCHANGED global_scope
    /\ EvalFixed

\* Scopes::slice
slice(sc, scope_idx) == SubSeq(sc, 1, scope_idx)

\* visit_style of a declaration whose value is a call of a user-defined function:
\* visit_expr sets IN_FUNCTION, run_user_defined_callable swaps in the closure
\* environment and opens the scope of the call, then the body is visited
VisitStyleCall ==
    /\ Ready("Style")
    /\ Cur.expr.e = "FunctionCall"
    /\ Cur.expr.name \in DOMAIN ev_program.functions
    /\ Trace(Null, "enter")
    /\ IF ~style_is_legal(CurrentCtx)
       THEN LeafReturns("panic", Null, "", CurrentCtx)
       ELSE LET function == ev_program.functions[Cur.expr.name]
                c == [CurrentCtx EXCEPT
                        !.flags = set_flag(flags, "IN_FUNCTION", TRUE),
                        !.semi = FALSE,
                        !.scopes = enter_new_scope(slice(scopes, function.scope_idx))]
            IN  Enter(<<Frame("Style", Cur, <<>>, CurrentCtx, FALSE),
                        Frame("FunctionCall", Cur, function.children, CurrentCtx, TRUE)>>, c)
    /\ UNCHANGED <<vars_tree, global_scope>>
    /\ EvalFixed

\* visit_return_rule
VisitReturn ==
    /\ Ready("Return")
    /\ LET r == visit_expr(Cur.expr, scopes, global_scope)
       IN  /\ Trace(r.val, IF r.ok THEN "value" ELSE "error")
           /\ IF r.ok
              THEN LeafReturns("value", without_slash(r.val), "", CurrentCtx)
              ELSE LeafReturns("error", Null, "Undefined variable.", CurrentCtx)
    /\ UNCHANGED <<vars_tree, global_scope>>
    /\ EvalFixed

\* AstStmt::ErrorRule: Err(visit_error_rule(..)?)
\* a plausible slip: @error is reported like @warn and evaluation goes on
error_rule_status_not_fatal(value_ok) == IF value_ok THEN "ok" ELSE "error"

\* Err(self.visit_error_rule(error_rule)?): Err with the message when the
\* value evaluates, the Err of the value otherwise
error_rule_status(value_ok) == "error"

VisitErrorRule ==
    /\ Ready("ErrorRule")
    /\ Trace(Null, error_rule_status(TRUE))
    /\ LeafReturns(error_rule_status(TRUE), Null, "@error", CurrentCtx)
    /\ UNCHANGED <<vars_tree, global_scope>>
    /\ EvalFixed

\* AstStmt::VariableDecl: visit_variable_decl
VisitDecl ==
    /\ Ready("VariableDecl")
    /\ LET o == variable_decl_outcome(Cur.decl, scopes, global_scope, in_semi_global,
                                      module_config)
           status == IF o.result = "err" THEN "error" ELSE o.result
       IN  /\ Trace(Null, status)
           /\ LeafReturns(status, Null, "Undefined variable.",
                          [CurrentCtx EXCEPT !.scopes = o.scopes])
           /\ global_scope' = o.global
           /\ warnings' = IF o.warning = None THEN warnings
                          ELSE emit_warning(warnings, quiet, o.warning[1], Cur.id)
    /\ UNCHANGED <<vars_tree, extensions, warnings_emitted>>
    /\ EvalFixedBase

\* visit_if_stmt up to the first statement of the clause it takes
VisitIf ==
    /\ Ready("If")
    /\ Trace(Null, "enter")
    /\ Enter(<<Frame("If", Cur, IF Cur.cond THEN Cur.body ELSE Cur.els, CurrentCtx, TRUE)>>,
             [CurrentCtx EXCEPT !.scopes = enter_new_scope(scopes)])
    /\ UNCHANGED <<vars_tree, global_scope>>
    /\ EvalFixed

\* Value::as_list
as_list(v) ==
    CASE v.kind \in {"List", "ArgList"} -> v.elems
      [] v.kind = "Map" -> [i \in 1..Len(v.entries) |->
                               ListValue(<<v.entries[i].k, v.entries[i].v>>, "Space")]
      [] OTHER -> <<v>>

\* visit_each_stmt up to the loop: the list is evaluated, one scope is entered
VisitEach ==
    /\ Ready("Each")
    /\ Trace(Null, "enter")
    /\ LET r == visit_expr(Cur.expr, scopes, global_scope)
       IN  IF ~r.ok
           THEN LeafReturns("error", Null, "Undefined variable.", CurrentCtx)
           ELSE Enter(<<[Frame("Each", Cur, <<>>, CurrentCtx, TRUE)
                            EXCEPT !.items = as_list(r.val)]>>,
                      [CurrentCtx EXCEPT !.scopes = enter_new_scope(scopes)])
    /\ UNCHANGED <<vars_tree, global_scope>>
    /\ EvalFixed

\* visit_for_stmt up to the loop: an empty range returns Ok(None) at once
VisitFor ==
    /\ Ready("For")
    /\ Trace(Null, "enter")
    /\ LET from == to_i64(Cur.for.from)
           direction == for_direction(from, to_i64(Cur.for.to))
           to == for_terminal(to_i64(Cur.for.to), direction, Cur.for.is_exclusive)
       IN  IF from = to
           THEN LeafReturns("ok", Null, "", CurrentCtx)
           ELSE Enter(<<[Frame("For", Cur, <<>>, CurrentCtx, TRUE)
                            EXCEPT !.i = from, !.to = to, !.dir = direction]>>,
                      [CurrentCtx EXCEPT !.scopes = enter_new_scope(scopes)])
    /\ UNCHANGED <<vars_tree, global_scope>>
    /\ EvalFixed

\* visit_while_stmt up to the first test: with_scope(true, has_declarations)
VisitWhile ==
    /\ Ready("While")
    /\ Trace(Null, "enter")
    /\ LET when == has_declarations(Cur.body)
       IN  Enter(<<Frame("While", Cur, <<>>, CurrentCtx, when)>>,
                 [CurrentCtx EXCEPT
                     !.semi = (TRUE /\ in_semi_global),
                     !.scopes = IF when THEN enter_new_scope(scopes) ELSE scopes])
    /\ UNCHANGED <<vars_tree, global_scope>>
    /\ EvalFixed

\* the check visit_ruleset, visit_media_rule and visit_unknown_at_rule start
\* with: todo!() when declaration_name is set
InNestedDeclaration ==
    /\ Trace(Null, "panic")
    /\ LeafReturns("panic", Null, "", CurrentCtx)
    /\ UNCHANGED <<vars_tree, global_scope>>
    /\ EvalFixed

\* visit_ruleset: a keyframes block inside @keyframes, a style rule otherwise
VisitRuleSet ==
    /\ Ready("RuleSet")
    /\ IF declaration_name # None
       THEN InNestedDeclaration
       ELSE /\ Trace(Null, "enter")
            /\ LET parent_idx == Len(stmts)
               IN  IF "IN_KEYFRAMES" \in flags
                   THEN /\ SetTree(css_tree_add_stmt(CurrentTree,
                                       NewStmt("KeyframesRuleSet", Cur.id), visitor_parent))
                        /\ Enter(<<Frame("KeyframesRuleSet", Cur, Cur.body, CurrentCtx, TRUE)>>,
                                 [CurrentCtx EXCEPT !.parent = Some(parent_idx),
                                                    !.semi = FALSE,
                                                    !.scopes = enter_new_scope(scopes)])
                   ELSE /\ SetTree(css_tree_add_stmt(CurrentTree,
                                       NewStmt("RuleSet", Cur.id), visitor_parent))
                        /\ Enter(<<Frame("RuleSet", Cur, Cur.body, CurrentCtx, TRUE)>>,
                                 [CurrentCtx EXCEPT
                                     !.flags = set_flag(flags, "AT_ROOT_EXCLUDING_STYLE_RULE", FALSE),
                                     !.style_rule = Some(Cur.id),
                                     !.parent = Some(parent_idx),
                                     !.semi = FALSE,
                                     !.scopes = enter_new_scope(scopes)])
            /\ UNCHANGED global_scope
            /\ EvalFixed

\* visit_include_stmt of a user-defined mixin without arguments: IN_MIXIN is
\* set, the content block captures the active content, and
\* run_user_defined_callable opens the scope of the call around with_content
VisitInclude ==
    /\ Ready("Include")
    /\ Trace(Null, "enter")
    /\ IF Cur.name \notin DOMAIN ev_program.mixins
       THEN LeafReturns("error", Null, "Undefined mixin.", CurrentCtx)
       ELSE LET mixin == ev_program.mixins[Cur.name]
                callable_content ==
                    IF Cur.has_content
                    THEN Some(CallableContentBlock(Cur.body, content))
                    ELSE None
            IN  IF Cur.has_content /\ ~mixin.has_content
                THEN LeafReturns("panic", Null, "", CurrentCtx)
                ELSE Enter(<<Frame("Include", Cur, mixin.body, CurrentCtx, TRUE)>>,
                           [CurrentCtx EXCEPT
                               !.flags = set_flag(flags, "IN_MIXIN", TRUE),
                               !.semi = FALSE,
                               !.scopes = enter_new_scope(scopes),
                               !.content = callable_content])
    /\ UNCHANGED <<vars_tree, global_scope>>
    /\ EvalFixed

\* a plausible slip of @content: the block is entered but its statements are
\* not visited
content_statements_dropped(block) == <<>>

\* for stmt in content.content.body: the statements @content visits
content_statements(block) == block.body

\* a plausible slip of @content: the block keeps the content that is active in
\* the mixin, which is the block itself
content_env_keeps_active(block) == Some(block)

\* new_for_content(scopes, content.content_at_decl): the content that is active
\* while the block runs
content_env(block) == block.content_at_decl

\* visit_content_rule: nothing without an active content block; otherwise the
\* block runs in an environment whose content is the one captured with it
VisitContentRule ==
    /\ Ready("ContentRule")
    /\ Trace(Null, "enter")
    /\ IF content = None
       THEN LeafReturns("ok", Null, "", CurrentCtx)
       ELSE Enter(<<Frame("ContentRule", Cur, content_statements(content[1]),
                          CurrentCtx, TRUE)>>,
                  [CurrentCtx EXCEPT
                      !.content = content_env(content[1]),
                      !.semi = FALSE,
                      !.scopes = enter_new_scope(scopes)])
    /\ UNCHANGED <<vars_tree, global_scope>>
    /\ EvalFixed

\* visit_unknown_at_rule of a rule with children: the flag for its name is
\* set, its node is added, and inside a style rule a copy of that rule is
\* added under it to hold the declarations
VisitUnknownAtRule ==
    /\ Ready("UnknownAtRule")
    /\ IF declaration_name # None
       THEN InNestedDeclaration
       ELSE /\ Trace(Null, "enter")
            /\ LET fl == IF Cur.name = "keyframes"
                         THEN set_flag(flags, "IN_KEYFRAMES", TRUE)
                         ELSE set_flag(flags, "IN_UNKNOWN_AT_RULE", TRUE)
                   parent_idx == Len(stmts)
                   t1 == css_tree_add_stmt(CurrentTree, NewStmt("UnknownAtRule", Cur.id),
                                           visitor_parent)
                   c1 == [CurrentCtx EXCEPT !.flags = fl,
                                            !.parent = Some(parent_idx),
                                            !.semi = FALSE,
                                            !.scopes = enter_new_scope(scopes)]
                   copied == style_rule_exists(c1) /\ "IN_KEYFRAMES" \notin fl
                   t2 == css_tree_add_stmt(t1, NewStmt("RuleSet", style_rule[1]), c1.parent)
               IN  /\ SetTree(IF copied THEN t2 ELSE t1)
                   /\ Enter(<<Frame("UnknownAtRule", Cur, Cur.body, CurrentCtx, TRUE)>>,
                            IF copied THEN [c1 EXCEPT !.parent = Some(parent_idx + 1)] ELSE c1)
            /\ UNCHANGED global_scope
            /\ EvalFixed

\* a plausible slip of visit_media_rule: the children are visited under the
\* media node itself
media_copies_style_rule_never(c) == FALSE

\* if !visitor.style_rule_exists() { children } else { copy of the style rule }
media_copies_style_rule(c) == style_rule_exists(c)

\* a plausible slip of visit_media_rule: a rule whose merge is empty is kept
media_rule_never_dropped(merged_queries) == FALSE

\* Some(merged_queries) if merged_queries.is_empty() => return Ok(None)
media_rule_dropped(merged_queries) ==
    merged_queries # None /\ merged_queries[1] = <<>>

\* visit_media_rule: the queries of the rule are
\* merged with the active ones (the active ones first), a rule whose merge is
\* empty returns at once, otherwise the node is added at the root with the
\* merged queries, or with its own when there is nothing to merge or the
\* merge is unrepresentable, and inside a style rule a copy of that rule is
\* added under it to hold the declarations
VisitMedia ==
    /\ Ready("Media")
    /\ IF declaration_name # None
       THEN InNestedDeclaration
       ELSE /\ LET queries1 == Cur.query
                   merged_queries ==
                       IF media_queries = None THEN None
                       ELSE merge_media_queries(media_queries[1], queries1)
                   merged_sources ==
                       IF merged_queries = None THEN <<>>
                       ELSE index_set_extend(index_set_extend(media_query_sources[1],
                                                              media_queries[1]), queries1)
                   query == IF merged_queries = None THEN queries1 ELSE merged_queries[1]
                   parent_idx == Len(stmts)
                   t1 == css_tree_add_stmt(CurrentTree, NewStmt("Media", media_text(query)), None)
                   c1 == [CurrentCtx EXCEPT !.parent = Some(parent_idx),
                                            !.semi = FALSE,
                                            !.scopes = enter_new_scope(scopes),
                                            !.media_queries = Some(query),
                                            !.media_query_sources = Some(merged_sources)]
                   copied == media_copies_style_rule(c1)
                   t2 == css_tree_add_stmt(t1, NewStmt("RuleSet", style_rule[1]), c1.parent)
               IN  IF media_rule_dropped(merged_queries)
                   THEN /\ Trace(Null, "ok")
                        /\ LeafReturns("ok", Null, "", CurrentCtx)
                        /\ UNCHANGED vars_tree
                   ELSE /\ Trace(Null, "enter")
                        /\ SetTree(IF copied THEN t2 ELSE t1)
                        /\ Enter(<<Frame("Media", Cur, Cur.body, CurrentCtx, TRUE)>>,
                                 IF copied THEN [c1 EXCEPT !.parent = Some(parent_idx + 1)] ELSE c1)
            /\ UNCHANGED global_scope
            /\ EvalFixed

\* selectors: a complex selector is a sequence of components, a component is
\* a compound selector (a sequence of simple selectors) or a combinator
CompoundSelector(simples) == [compound |-> TRUE, components |-> simples]

Combinator == [compound |-> FALSE, components |-> <<>>]

\* Extender::add_extension, as the record of its arguments
add_extension(ext, extender, target, queries) ==
    Append(ext, [extender |-> extender, target |-> target, media_queries |-> queries])

\* complex.components.len() != 1 || !complex.components.first().is_compound()
extend_rejects_complex(complex) == Len(complex) # 1 \/ ~complex[1].compound

\* a plausible slip: a compound target is registered by its first simple selector
extend_rejects_compound_never(compound) == FALSE

\* compound.components.len() != 1
extend_rejects_compound(compound) == Len(compound.components) # 1

\* the loop of visit_extend_rule over the targets from the k-th on: a target
\* that is rejected returns Err at once, the targets before it stay registered
RECURSIVE extend_loop(_, _, _, _, _)
extend_loop(list, k, ext, super_selector, queries) ==
    IF k > Len(list) THEN [extensions |-> ext, error |-> None]
    ELSE IF extend_rejects_complex(list[k])
    THEN [extensions |-> ext, error |-> Some("complex selectors may not be extended.")]
    ELSE IF extend_rejects_compound(list[k][1])
    THEN [extensions |-> ext,
          error |-> Some("compound selectors may no longer be extended.")]
    ELSE extend_loop(list, k + 1,
                     add_extension(ext, super_selector, list[k][1].components[1], queries),
                     super_selector, queries)

\* visit_extend_rule: todo!() outside a style rule and inside a nested
\* declaration, otherwise the targets are registered one by one
VisitExtend ==
    /\ Ready("Extend")
    /\ IF style_rule = None \/ declaration_name # None
       THEN /\ Trace(Null, "panic")
            /\ LeafReturns("panic", Null, "", CurrentCtx)
            /\ UNCHANGED extensions
       ELSE LET r == extend_loop(Cur.targets, 1, extensions, style_rule[1], media_queries)
                status == IF r.error = None THEN "ok" ELSE "error"
            IN  /\ Trace(Null, status)
                /\ LeafReturns(status, Null, IF r.error = None THEN "" ELSE r.error[1],
                               CurrentCtx)
                /\ extensions' = r.extensions
    /\ UNCHANGED <<vars_tree, global_scope, warnings_emitted, warnings>>
    /\ EvalFixedBase

\* Value::to_css_string: a map is not a CSS value
to_css_string(v) == [ok |-> v.kind # "Map", text |-> v]

\* a plausible slip: the span is never looked up, every visit warns
warn_is_new_always(emitted, span) == TRUE

\* self.warnings_emitted.insert(span): true when the span was not in the set
warn_is_new(emitted, span) == span \notin emitted

\* visit_warn_rule: the span is inserted first; only a span that was new has
\* its expression evaluated and its message handed to emit_warning
VisitWarn ==
    /\ Ready("Warn")
    /\ warnings_emitted' = warnings_emitted \cup {Cur.id}
    /\ IF warn_is_new(warnings_emitted, Cur.id)
       THEN LET r == visit_expr(Cur.expr, scopes, global_scope)
                message == to_css_string(r.val)
                status == IF r.ok /\ message.ok THEN "ok" ELSE "error"
            IN  /\ Trace(r.val, status)
                /\ LeafReturns(status, Null,
                               IF r.ok THEN "isn't a valid CSS value." ELSE "Undefined variable.",
                               CurrentCtx)
                /\ warnings' = IF status = "ok"
                               THEN emit_warning(warnings, quiet, message.text, Cur.id)
                               ELSE warnings
       ELSE /\ Trace(Null, "ok")
            /\ LeafReturns("ok", Null, "", CurrentCtx)
            /\ UNCHANGED warnings
    /\ UNCHANGED <<vars_tree, global_scope, extensions>>
    /\ EvalFixedBase

\* AtRootQuery::default().excludes: the default query is "without: rule"
query_excludes(stmt) == stmt.kind = "RuleSet"

\* child_to_parent.get(idx)
parent_of(idx) == IF idx \in DOMAIN child_to_parent THEN Some(child_to_parent[idx]) ELSE None

\* the walk of visit_at_root_rule from the insertion parent upwards: the
\* ancestors the query does not exclude, innermost first; the walk ends at a
\* slot that holds no statement (the root)
RECURSIVE included_ancestors(_)
included_ancestors(par) ==
    IF par = None THEN <<>>
    ELSE IF Slot(stmts, par[1]) = NoStmt THEN <<>>
    ELSE (IF query_excludes(Slot(stmts, par[1])) THEN <<>> ELSE <<par[1]>>)
         \o included_ancestors(parent_of(par[1]))

\* what trim_included returns when it hits todo!() or unwraps None
TrimPanics == 0 - 1

\* a plausible slip: a gap between two nodes of the list does not reset
\* innermost_contiguous
trim_gap_ignored(innermost_contiguous) == innermost_contiguous

\* innermost_contiguous = None, when the walk passes a node that is not in the list
trim_gap(innermost_contiguous) == None

\* the loop of trim_included from the i-th node on
RECURSIVE trim_loop(_, _, _, _)
trim_loop(nodes, i, parent, innermost_contiguous) ==
    IF i > Len(nodes)
    THEN IF parent # Some(ROOT) THEN ROOT ELSE nodes[innermost_contiguous[1]]
    ELSE IF parent = None THEN TrimPanics
    ELSE IF parent_of(parent[1]) = None THEN TrimPanics
    ELSE IF parent # Some(nodes[i])
    THEN trim_loop(nodes, i, parent_of(parent[1]), trim_gap(innermost_contiguous))
    ELSE trim_loop(nodes, i + 1, parent_of(parent[1]),
                   IF innermost_contiguous = None THEN Some(i) ELSE innermost_contiguous)

\* trim_included
trim_included(nodes, par) ==
    IF nodes = <<>> THEN ROOT ELSE trim_loop(nodes, 1, par, None)

\* a plausible slip: the children are always visited where the rule stands
at_root_in_place_always(root, par) == TRUE

\* if Some(root) == self.parent
at_root_in_place(root, par) == Some(root) = par

\* visit_at_root_rule: a rule with a query reaches todo!() once the query
\* text is interpolated.  Without a query: when the trimmed root is the
\* insertion parent the children are visited in place in a new scope;
\* otherwise with_scope_for_at_root adds a copy of the statement of the
\* trimmed root under the root (no node when the trimmed root is ROOT, whose
\* slot holds no statement), makes it the parent and sets
\* AT_ROOT_EXCLUDING_STYLE_RULE
VisitAtRootRule ==
    /\ Ready("AtRootRule")
    /\ LET included == included_ancestors(visitor_parent)
           root == trim_included(included, visitor_parent)
           inner_copy == Slot(stmts, root)
           new_parent_idx == IF inner_copy = NoStmt THEN None ELSE Some(Len(stmts))
       IN  IF Cur.name # "" \/ root = TrimPanics
           THEN /\ Trace(Null, "panic")
                /\ LeafReturns("panic", Null, "", CurrentCtx)
                /\ UNCHANGED vars_tree
           ELSE IF at_root_in_place(root, visitor_parent)
           THEN /\ Trace(Null, "enter")
                /\ Enter(<<Frame("AtRootInPlace", Cur, Cur.body, CurrentCtx, TRUE)>>,
                         [CurrentCtx EXCEPT !.semi = FALSE,
                                            !.scopes = enter_new_scope(scopes)])
                /\ UNCHANGED vars_tree
           ELSE /\ Trace(Null, "enter")
                /\ IF inner_copy = NoStmt THEN UNCHANGED vars_tree
                   ELSE SetTree(css_tree_add_stmt(CurrentTree, inner_copy, None))
                /\ Enter(<<Frame("AtRootRule", Cur, Cur.body, CurrentCtx, FALSE)>>,
                         [CurrentCtx EXCEPT
                             !.parent = new_parent_idx,
                             !.flags = set_flag(flags, "AT_ROOT_EXCLUDING_STYLE_RULE", TRUE)])
    /\ UNCHANGED global_scope
    /\ EvalFixed

\* the zip of visit_each_stmt: the k-th variable takes the k-th element of the
\* destructured value, Value::Null when there is none
RECURSIVE set_multiple_variables(_, _, _, _)
set_multiple_variables(sc, names, vals, k) ==
    IF k > Len(names) THEN sc
    ELSE set_multiple_variables(
             insert_var_last(sc, names[k], IF k <= Len(vals) THEN vals[k] ELSE Null),
             names, vals, k + 1)

\* a plausible slip of the binding of visit_each_stmt: the element is never
\* destructured
each_bind_first_only(sc, names, val) == insert_var_last(sc, names[1], val)

\* visit_each_stmt binds the variables of one iteration
each_bind(sc, names, val) ==
    IF Len(names) = 1
    THEN insert_var_last(sc, names[1], val)
    ELSE set_multiple_variables(sc, names, as_list(val), 1)

\* a plausible slip: the loop variable is bound in the outermost open scope
for_bind_outermost(sc, name, v) == [sc EXCEPT ![1] = MapPut(@, name, v)]

\* the binding of visit_for_stmt: insert_var_last(for_stmt.variable, i)
for_bind(sc, name, v) == insert_var_last(sc, name, v)

\* the body of a loop was visited without a result (or the loop just
\* started): the next element or number is bound, or the condition holds again
LoopNext ==
    /\ ev_pc = "running"
    /\ ev_stack # <<>>
    /\ ev_pending.status = "none"
    /\ Top.todo = <<>>
    /\ LET f == Top
           n == Len(ev_stack)
           next_i == IF f.started THEN f.i + f.dir ELSE f.i
       IN  CASE f.kind = "Each" ->
                  /\ f.items # <<>>
                  /\ LET val == Head(f.items)
                         names == f.stmt.vars
                     IN  /\ scopes' = each_bind(scopes, names, val)
                         /\ ev_stack' = [ev_stack EXCEPT ![n].items = Tail(f.items),
                                                        ![n].todo = f.stmt.body,
                                                        ![n].started = TRUE]
             [] f.kind = "For" ->
                  /\ next_i # f.to
                  /\ scopes' = for_bind(scopes, f.stmt.for.variable, Num(next_i))
                  /\ ev_stack' = [ev_stack EXCEPT ![n].i = next_i,
                                                 ![n].todo = f.stmt.body,
                                                 ![n].started = TRUE]
             [] f.kind = "While" ->
                  /\ f.stmt.cond
                  /\ f.i < MaxWhile
                  /\ scopes' = scopes
                  /\ ev_stack' = [ev_stack EXCEPT ![n].i = f.i + 1,
                                                 ![n].todo = f.stmt.body,
                                                 ![n].started = TRUE]
             [] OTHER -> FALSE
    /\ UNCHANGED <<flags, in_semi_global, visitor_parent, content, style_rule,
                   ev_pending, ev_pc, ev_trace, last_visit, media_queries,
                   media_query_sources, declaration_name>>
    /\ UNCHANGED <<vars_tree, global_scope>>
    /\ EvalFixed

\* no statement, element or number is left for the innermost handler
BodyExhausted(f) ==
    /\ f.todo = <<>>
    /\ CASE f.kind = "Each" -> f.items = <<>>
         [] f.kind = "For" -> (IF f.started THEN f.i + f.dir ELSE f.i) = f.to
         [] f.kind = "While" -> ~f.stmt.cond
         [] OTHER -> TRUE

\* a handler other than a function call or the stylesheet finished its body
\* without a result: it returns Ok(None)
Complete ==
    /\ ev_pc = "running"
    /\ ev_stack # <<>>
    /\ ev_pending.status = "none"
    /\ Top.kind \notin {"Root", "FunctionCall", "Style"}
    /\ BodyExhausted(Top)
    /\ LET c == leave(Top, CurrentCtx, TRUE)
       IN  /\ SetCtx(c)
           /\ Returned(Top.entry, c, "ok", Top.kind)
    /\ ev_stack' = Pop
    /\ UNCHANGED <<ev_pending, ev_pc, ev_trace>>
    /\ UNCHANGED <<vars_tree, global_scope>>
    /\ EvalFixed

\* the children of a function were visited and none yielded a value:
\* Err("Function finished without @return.", span)
FunctionFinishedWithoutReturn ==
    /\ ev_pc = "running"
    /\ ev_stack # <<>>
    /\ ev_pending.status = "none"
    /\ Top.kind = "FunctionCall"
    /\ Top.todo = <<>>
    /\ LET c == leave(Top, CurrentCtx, FALSE)
       IN  /\ SetCtx(c)
           /\ Returned(Top.entry, c, "error", Top.kind)
    /\ ev_pending' = Pending("error", Null, <<"Function finished without @return.">>,
                             Top.stmt.id)
    /\ ev_stack' = Pop
    /\ UNCHANGED <<ev_pc, ev_trace>>
    /\ UNCHANGED <<vars_tree, global_scope>>
    /\ EvalFixed

\* visit_stylesheet returns Ok(())
StylesheetDone ==
    /\ ev_pc = "running"
    /\ ev_stack # <<>>
    /\ ev_pending.status = "none"
    /\ Top.kind = "Root"
    /\ Top.todo = <<>>
    /\ ev_stack' = Pop
    /\ ev_pc' = "done"
    /\ UNCHANGED <<flags, content, visitor_parent, style_rule, ev_pending, ev_trace,
                   last_visit, media_queries, media_query_sources, declaration_name>>
    /\ UNCHANGED <<vars_tree, vars_env>>
    /\ EvalFixed

\* a plausible slip of the loops: a value yielded inside @each is dropped and
\* the loop goes on
on_value_each_goes_on(kind) ==
    CASE kind = "Each" -> "continue"
      [] kind \in {"If", "For", "While", "FunctionCall"} -> "return"
      [] kind = "Style" -> "use"
      [] OTHER -> "panic"

\* what a handler does when a statement of its body yields Some(val): the
\* control-flow constructs break and return it (result = val; break 'outer),
\* the function body returns it (return Ok(val)), the declaration that made
\* the call uses it, every other body has assert!(result.is_none())
on_value(kind) ==
    CASE kind \in {"If", "Each", "For", "While", "FunctionCall"} -> "return"
      [] kind = "Style" -> "use"
      [] OTHER -> "panic"

\* a statement of the innermost body yielded Some(val)
ReceiveValue ==
    /\ ev_pc = "running"
    /\ ev_stack # <<>>
    /\ ev_pending.status = "value"
    /\ CASE on_value(Top.kind) = "return" ->
              LET c == leave(Top, CurrentCtx, TRUE)
              IN  /\ SetCtx(c)
                  /\ Returned(Top.entry, c, "value", Top.kind)
                  /\ ev_stack' = Pop
                  /\ UNCHANGED <<ev_pending, ev_pc, vars_tree>>
         [] on_value(Top.kind) = "use" ->
              \* the value of the declaration: the rest of visit_style
              /\ IF ev_pending.val.kind # "Null"
                 THEN SetTree(css_tree_add_stmt(CurrentTree,
                         NewStmt("Style", style_value(ev_pending.val)), visitor_parent))
                 ELSE UNCHANGED vars_tree
              /\ SetCtx(CurrentCtx)
              /\ Returned(Top.entry, CurrentCtx, "ok", Top.kind)
              /\ ev_stack' = Pop
              /\ ev_pending' = NoPending
              /\ ev_pc' = ev_pc
         [] on_value(Top.kind) = "continue" ->
              /\ ev_pending' = NoPending
              /\ SetCtx(CurrentCtx)
              /\ UNCHANGED <<ev_stack, ev_pc, last_visit, vars_tree>>
         [] OTHER ->
              \* assert!(result.is_none())
              /\ ev_pc' = "panicked"
              /\ SetCtx(CurrentCtx)
              /\ UNCHANGED <<ev_stack, ev_pending, last_visit, vars_tree>>
    /\ UNCHANGED <<ev_trace, global_scope>>
    /\ EvalFixed

\* a statement of the innermost body returned Err: the handler returns it
PropagateError ==
    /\ ev_pc = "running"
    /\ ev_stack # <<>>
    /\ ev_pending.status = "error"
    /\ LET c == leave(Top, CurrentCtx, FALSE)
       IN  /\ SetCtx(c)
           /\ Returned(Top.entry, c, "error", Top.kind)
    /\ ev_stack' = Pop
    /\ ev_pc' = IF Top.kind = "Root" THEN "failed" ELSE ev_pc
    /\ UNCHANGED <<ev_pending, ev_trace>>
    /\ UNCHANGED <<vars_tree, global_scope>>
    /\ EvalFixed

\* Visitor::finish after visit_stylesheet returned Ok
EvalFinish ==
    /\ ev_pc = "done"
    /\ finish

(***************************************************************************)
(* @import (find_import, import_like_node, visit_dynamic_import_rule)      *)
(*                                                                         *)
(* A path is the sequence of its components.  The file system of the model *)
(* holds main.scss, b.scss, c.scss, lib/a.scss, lib/_b.scss, lib/d.scss    *)
(* and lib/e.scss.                                                         *)
(***************************************************************************)
\* Path::with_extension("scss") on a file name
with_extension_scss(name) ==
    CASE name = "a"  -> "a.scss"
      [] name = "b"  -> "b.scss"
      [] name = "c"  -> "c.scss"
      [] name = "d"  -> "d.scss"
      [] name = "e"  -> "e.scss"
      [] name = "_a" -> "_a.scss"
      [] name = "_b" -> "_b.scss"
      [] name = "_c" -> "_c.scss"
      [] name = "_d" -> "_d.scss"
      [] name = "_e" -> "_e.scss"
      [] name = "missing"  -> "missing.scss"
      [] name = "_missing" -> "_missing.scss"
      [] OTHER -> name

\* format!("_{}", name)
underscored(name) ==
    CASE name = "a" -> "_a"
      [] name = "b" -> "_b"
      [] name = "c" -> "_c"
      [] name = "d" -> "_d"
      [] name = "e" -> "_e"
      [] OTHER -> "_missing"

\* Path::parent
path_parent(path) == SubSeq(path, 1, Len(path) - 1)

\* Path::with_file_name
with_file_name(path, name) == Append(path_parent(path), name)

\* the files of the model: whether the file parses, and the statements of
\* its stylesheet.  lib/a.scss imports "b", lib/d.scss imports "e", c.scss
\* has a syntax error.
Files ==
    [path \in {<<"main.scss">>, <<"b.scss">>, <<"c.scss">>, <<"lib", "a.scss">>,
               <<"lib", "_b.scss">>, <<"lib", "d.scss">>, <<"lib", "e.scss">>} |->
        CASE path = <<"lib", "a.scss">> ->
                [parses |-> TRUE,
                 body |-> <<AstImportRule(11, <<"b">>),
                            AstRuleSet(12, <<AstStyle(13, NumberExpr(1))>>)>>]
          [] path = <<"lib", "_b.scss">> ->
                [parses |-> TRUE, body |-> <<AstRuleSet(14, <<AstStyle(15, NumberExpr(2))>>)>>]
          [] path = <<"b.scss">> ->
                [parses |-> TRUE, body |-> <<AstRuleSet(16, <<AstStyle(17, NumberExpr(3))>>)>>]
          [] path = <<"lib", "d.scss">> ->
                [parses |-> TRUE,
                 body |-> <<AstImportRule(18, <<"e">>),
                            AstRuleSet(19, <<AstStyle(20, NumberExpr(4))>>)>>]
          [] path = <<"lib", "e.scss">> ->
                [parses |-> TRUE, body |-> <<AstRuleSet(21, <<AstStyle(22, NumberExpr(5))>>)>>]
          [] path = <<"c.scss">> -> [parses |-> FALSE, body |-> <<>>]
          [] OTHER -> [parses |-> TRUE, body |-> <<>>]]

\* Fs::is_file
is_file(path) == path \in DOMAIN Files

\* the paths find_import tries for a relative url, in order; load_paths is empty
import_candidates(dir, url) ==
    LET path_buf == dir \o url
        name == path_buf[Len(path_buf)]
    IN  <<with_file_name(path_buf, with_extension_scss(name)),
          with_file_name(path_buf, with_extension_scss(underscored(name))),
          path_buf,
          Append(path_buf, "index.scss"),
          Append(path_buf, "_index.scss")>>

\* find_import of a relative url, searched from the directory of the file searched_from
find_import_from(searched_from, url) ==
    LET tries == import_candidates(path_parent(searched_from), url)
        hits == {i \in DOMAIN tries : is_file(tries[i])}
    IN  IF hits = {} THEN None
        ELSE Some(tries[CHOOSE i \in hits : \A j \in hits : i <= j])

\* find_import: the search starts at current_import_path.parent()
find_import(cur, url) == find_import_from(cur, url)

\* import_like_node: current_import_path is swapped to the file found while
\* it is parsed and swapped back after a successful parse; a parse error
\* returns with `?` before the second swap.  path is current_import_path
\* when import_like_node returns.
import_like_node(cur, url) ==
    LET found == find_import(cur, url)
    IN  IF found = None
        THEN [ok |-> FALSE, path |-> cur, name |-> <<>>, body |-> <<>>,
              msg |-> "Can't find stylesheet to import."]
        ELSE IF ~Files[found[1]].parses
        THEN [ok |-> FALSE, path |-> found[1], name |-> found[1], body |-> <<>>,
              msg |-> "parse error"]
        ELSE [ok |-> TRUE, path |-> cur, name |-> found[1], body |-> Files[found[1]].body,
              msg |-> ""]

\* visit_import_rule of one Sass import: the stylesheet is loaded and parsed,
\* then visit_stylesheet runs on it inline.  The frame keeps the file the
\* import resolved to in its field items.
VisitImport ==
    /\ Ready("ImportRule")
    /\ Trace(Null, "enter")
    /\ LET r == import_like_node(current_import_path, Cur.url)
       IN  /\ current_import_path' = r.path
           /\ IF r.ok
              THEN Enter(<<[Frame("Import", Cur, r.body, CurrentCtx, FALSE)
                               EXCEPT !.items = r.name]>>, CurrentCtx)
              ELSE LeafReturns("error", Null, r.msg, CurrentCtx)
    /\ UNCHANGED <<vars_tree, global_scope>>
    /\ UNCHANGED <<module_config, ev_program, merge_call, quiet, vars_decl, vars_call,
                   vars_for, extensions, warnings_emitted, warnings>>

(***************************************************************************)
(* The stylesheets SpecEval visits                                         *)
(***************************************************************************)
\* the list (1, 2) and the list ((1 2), 3)
ListOneTwo == ListExpr(<<Num(1), Num(2)>>, "Comma")

ListPairs == ListExpr(<<ListValue(<<Num(1), Num(2)>>, "Space"), Num(3)>>, "Comma")

\* the control-flow statements a body is wrapped in
ControlWraps == {"if", "else", "ifnot", "each", "for", "while", "whilenot"}

\* the rules and includes a body is wrapped in
RuleWraps == {"ruleset", "include_m", "include_outer", "include_plain", "unknown",
              "keyframes", "atroot"}

Wrap(w, id, body) ==
    CASE w = "if"            -> AstIf(id, TRUE, body, <<>>)
      [] w = "else"          -> AstIf(id, FALSE, <<>>, body)
      [] w = "ifnot"         -> AstIf(id, FALSE, body, <<>>)
      [] w = "each"          -> AstEach(id, <<"x">>, ListOneTwo, body)
      [] w = "for"           -> AstForStmt(id, AstFor("i", Rational(1, 1), Rational(3, 1), TRUE), body)
      [] w = "while"         -> AstWhile(id, TRUE, body)
      [] w = "whilenot"      -> AstWhile(id, FALSE, body)
      [] w = "ruleset"       -> AstRuleSet(id, body)
      [] w = "include_m"     -> AstInclude(id, "m", TRUE, body)
      [] w = "include_outer" -> AstInclude(id, "outer", TRUE, body)
      [] w = "include_plain" -> AstInclude(id, "plain", FALSE, <<>>)
      [] w = "unknown"       -> AstUnknownAtRule(id, "foo", body)
      [] w = "keyframes"     -> AstUnknownAtRule(id, "keyframes", body)
      [] w = "atroot"        -> AstAtRootRule(id, body)

\* @mixin m { @content }, @mixin outer { @include m { @content } },
\* @mixin plain { width: 4 }, @mixin bad { @error }, @mixin twice { @content; @content },
\* @mixin warns { @warn 5 }, @mixin local { $p: 7; @content }
Mixins ==
    [name \in {"m", "outer", "plain", "bad", "twice", "warns", "local"} |->
        CASE name = "m"     -> AstMixin(<<AstContentRule(20)>>, TRUE)
          [] name = "outer" -> AstMixin(<<AstInclude(21, "m", TRUE, <<AstContentRule(22)>>)>>, TRUE)
          [] name = "plain" -> AstMixin(<<AstStyle(23, NumberExpr(4))>>, FALSE)
          [] name = "bad"   -> AstMixin(<<AstErrorRule(24)>>, FALSE)
          [] name = "twice" -> AstMixin(<<AstContentRule(25), AstContentRule(26)>>, TRUE)
          [] name = "warns" -> AstMixin(<<AstWarn(27, NumberExpr(5))>>, FALSE)
          [] name = "local" ->
                AstMixin(<<AstDecl(28, AstVariableDecl("p", NumberExpr(7), FALSE, FALSE)),
                           AstContentRule(29)>>, TRUE)]

\* the bodies of the function f of a stylesheet a { width: f() }
FunctionLeaves ==
    {<<AstReturn(3, NumberExpr(5)), AstReturn(4, NumberExpr(6))>>,
     <<AstReturn(3, VariableExpr("x"))>>,
     <<AstReturn(3, DivExpr(5))>>,
     <<AstErrorRule(3)>>,
     <<AstDecl(3, AstVariableDecl("x", NumberExpr(3), FALSE, FALSE))>>}

FunctionTails == {<<>>, <<AstReturn(5, NumberExpr(9))>>}

FunctionBodies ==
    {<<Wrap(w1, 1, <<Wrap(w2, 2, leaves)>>)>> \o tail :
        w1 \in ControlWraps, w2 \in ControlWraps, leaves \in FunctionLeaves,
        tail \in FunctionTails}

\* a { width: f() } with @function f() { children }
FunctionProgram(children) ==
    StyleSheet(Mixins, [name \in {"f"} |-> UserDefinedFunction(children, 0)],
               <<AstRuleSet(100, <<AstStyle(101, FunctionCallExpr("f")),
                                   AstStyle(102, NumberExpr(8))>>)>>)

\* @function f() { @return 5 }, @function g() { @error }
Functions ==
    [name \in {"f", "g"} |->
        IF name = "f" THEN UserDefinedFunction(<<AstReturn(30, NumberExpr(5))>>, 0)
        ELSE UserDefinedFunction(<<AstErrorRule(31)>>, 0)]

StyleLeaves ==
    {<<AstStyle(3, NumberExpr(7))>>,
     <<AstStyle(3, VariableExpr("x"))>>,
     <<AstErrorRule(3)>>,
     <<AstInclude(3, "bad", FALSE, <<>>)>>,
     <<AstInclude(3, "twice", TRUE, <<AstStyle(4, NumberExpr(7))>>)>>,
     <<AstStyle(3, FunctionCallExpr("f"))>>,
     <<AstStyle(3, FunctionCallExpr("g"))>>}

StyleWraps == RuleWraps \cup {"if", "each"}

\* @at-root is kept below style rules
StyleWrapPairs ==
    {p \in StyleWraps \X StyleWraps :
        ~(p[2] = "atroot" /\ p[1] \in {"unknown", "keyframes"})}

\* a { w1 { w2 { leaves } } width: 8 }
StylePrograms ==
    {StyleSheet(Mixins, Functions,
                <<AstRuleSet(100, <<Wrap(p[1], 1, <<Wrap(p[2], 2, leaves)>>),
                                    AstStyle(102, NumberExpr(8))>>)>>) :
        p \in StyleWrapPairs, leaves \in StyleLeaves}

\* @each $x in (1, 2) { a { width: $x } }
EachRuleProgram ==
    StyleSheet(Mixins, Functions,
        <<AstEach(1, <<"x">>, ListOneTwo,
                  <<AstRuleSet(2, <<AstStyle(3, VariableExpr("x"))>>)>>)>>)

\* @each $x, $y in ((1 2), 3) { a { width: $x; height: $y } }
EachPairsProgram ==
    StyleSheet(Mixins, Functions,
        <<AstEach(1, <<"x", "y">>, ListPairs,
                  <<AstRuleSet(2, <<AstStyle(3, VariableExpr("x")),
                                    AstStyle(4, VariableExpr("y"))>>)>>)>>)

\* @mixin m { @content } a { @include m { color: red } }, and a { @include m }
ContentProgram ==
    StyleSheet(Mixins, Functions,
        <<AstRuleSet(1, <<AstInclude(2, "m", TRUE, <<AstStyle(3, NumberExpr(7))>>)>>)>>)

NoContentProgram ==
    StyleSheet(Mixins, Functions,
        <<AstRuleSet(1, <<AstInclude(2, "m", FALSE, <<>>)>>)>>)

\* a { $s: 2; @include local { width: $name } }: $s is bound at the call site,
\* $p in the mixin only, $q nowhere
ContentScopePrograms ==
    {StyleSheet(Mixins, Functions,
        <<AstRuleSet(1, <<AstDecl(2, AstVariableDecl("s", NumberExpr(2), FALSE, FALSE)),
                          AstInclude(3, "local", TRUE,
                                     <<AstStyle(4, VariableExpr(name))>>)>>)>>) :
        name \in {"s", "p", "q"}}

\* the query lists of the @media rules of the stylesheets
MediaLists ==
    {<<q>> : q \in MediaQueries}
        \cup {<<MediaQuery("", "screen", {}), MediaQuery("", "print", {})>>,
              <<MediaQuery("not", "screen", {}), MediaQuery("", "", {"c"})>>}

MediaLeaves == {<<AstStyle(4, NumberExpr(7))>>, <<AstErrorRule(4)>>}

\* @media l1 { @media l2 { a { leaves } } b { width: 8 } } and
\* a { @media l1 { @media l2 { leaves } width: 8 } }
MediaPrograms ==
    {StyleSheet(Mixins, Functions,
                <<AstMedia(1, l1, <<AstMedia(2, l2, <<AstRuleSet(3, leaves)>>),
                                    AstRuleSet(5, <<AstStyle(6, NumberExpr(8))>>)>>)>>) :
        l1 \in MediaLists, l2 \in MediaLists, leaves \in MediaLeaves}
    \cup
    {StyleSheet(Mixins, Functions,
                <<AstRuleSet(3, <<AstMedia(1, l1, <<AstMedia(2, l2, leaves),
                                                   AstStyle(6, NumberExpr(8))>>)>>)>>) :
        l1 \in MediaLists, l2 \in MediaLists, leaves \in MediaLeaves}

\* a { @media screen { width: 7 } width: 8 }
RuleMediaProgram ==
    StyleSheet(Mixins, Functions,
        <<AstRuleSet(3, <<AstMedia(1, <<MediaQuery("", "screen", {})>>,
                                   <<AstStyle(4, NumberExpr(7))>>),
                          AstStyle(6, NumberExpr(8))>>)>>)

\* the targets of @extend: .a / .a, .b / .a, .a.b / .a.b / .a .b / .a, .a .b / > / nothing
ExtendTargets ==
    {<<<<CompoundSelector(<<".a">>)>>>>,
     <<<<CompoundSelector(<<".a">>)>>, <<CompoundSelector(<<".b">>)>>>>,
     <<<<CompoundSelector(<<".a">>)>>, <<CompoundSelector(<<".a", ".b">>)>>>>,
     <<<<CompoundSelector(<<".a", ".b">>)>>>>,
     <<<<CompoundSelector(<<".a">>), CompoundSelector(<<".b">>)>>>>,
     <<<<CompoundSelector(<<".a">>)>>,
       <<CompoundSelector(<<".a">>), CompoundSelector(<<".b">>)>>>>,
     <<<<Combinator>>>>,
     <<>>}

\* where the @extend stands: at the top level, in a rule, in a rule inside
\* @media, in a nested declaration of a rule, in @at-root inside a rule
ExtendContexts == {"top", "rule", "media", "declaration", "atroot"}

ExtendProgram(where, targets) ==
    LET extend == AstExtend(4, targets)
    IN  StyleSheet(Mixins, Functions,
            CASE where = "top" -> <<extend, AstRuleSet(3, <<AstStyle(6, NumberExpr(8))>>)>>
              [] where = "rule" -> <<AstRuleSet(3, <<extend, AstStyle(6, NumberExpr(8))>>)>>
              [] where = "media" ->
                    <<AstMedia(1, <<MediaQuery("", "screen", {})>>,
                               <<AstRuleSet(3, <<extend, AstStyle(6, NumberExpr(8))>>)>>)>>
              [] where = "declaration" ->
                    <<AstRuleSet(3, <<AstStyleNested(5, NumberExpr(7), <<extend>>),
                                      AstStyle(6, NumberExpr(8))>>)>>
              [] where = "atroot" ->
                    <<AstRuleSet(3, <<AstAtRootRule(1, <<extend>>),
                                      AstStyle(6, NumberExpr(8))>>)>>)

ExtendPrograms ==
    {ExtendProgram(where, targets) : where \in ExtendContexts, targets \in ExtendTargets}

\* what a nested declaration holds: a declaration, a rule, @media, an
\* unknown at-rule, an undefined variable
DeclarationLeaves ==
    {<<AstStyle(4, NumberExpr(9))>>,
     <<AstStyleNested(4, NumberExpr(9), <<AstStyle(7, NumberExpr(1))>>)>>,
     <<AstRuleSet(4, <<>>)>>,
     <<AstMedia(4, <<MediaQuery("", "screen", {})>>, <<>>)>>,
     <<AstUnknownAtRule(4, "foo", <<>>)>>,
     <<AstStyle(4, VariableExpr("x"))>>}

\* a { font: 7 { leaves } width: 8 }
DeclarationPrograms ==
    {StyleSheet(Mixins, Functions,
                <<AstRuleSet(3, <<AstStyleNested(5, NumberExpr(7), leaves),
                                  AstStyle(6, NumberExpr(8))>>)>>) :
        leaves \in DeclarationLeaves}

\* @at-root { b { width: 7 } }
AtRootB == AstAtRootRule(2, <<AstRuleSet(5, <<AstStyle(4, NumberExpr(7))>>)>>)

\* a { @at-root { b { width: 7 } } width: 8 }
RuleAtRoot == AstRuleSet(3, <<AtRootB, AstStyle(6, NumberExpr(8))>>)

ScreenQuery == <<MediaQuery("", "screen", {})>>

\* @media screen { a { @at-root { b { width: 7 } } width: 8 } }
MediaAtRootProgram == StyleSheet(Mixins, Functions, <<AstMedia(1, ScreenQuery, <<RuleAtRoot>>)>>)

\* where the @at-root stands: at the top level, directly in @media, in a rule
\* in @foo, in @foo in a rule, in a rule in @foo in @media, in a keyframes
\* block, in a rule in @foo in a rule in @bar, in @at-root in a rule
AtRootPrograms ==
    {StyleSheet(Mixins, Functions, body) : body \in
        {<<AtRootB>>,
         <<AstMedia(1, ScreenQuery, <<AtRootB>>)>>,
         <<AstUnknownAtRule(1, "foo", <<RuleAtRoot>>)>>,
         <<AstRuleSet(3, <<AstUnknownAtRule(1, "foo", <<AtRootB>>),
                           AstStyle(6, NumberExpr(8))>>)>>,
         <<AstMedia(1, ScreenQuery, <<AstUnknownAtRule(7, "foo", <<RuleAtRoot>>)>>)>>,
         <<AstUnknownAtRule(1, "keyframes", <<AstRuleSet(3, <<AtRootB>>)>>)>>,
         <<AstUnknownAtRule(1, "bar",
              <<AstRuleSet(8, <<AstUnknownAtRule(7, "foo", <<RuleAtRoot>>)>>)>>)>>,
         <<AstRuleSet(3, <<AstAtRootRule(1, <<AtRootB>>), AstStyle(6, NumberExpr(8))>>)>>}}
        \cup {MediaAtRootProgram}

\* @media screen { a { @at-root (without: media) { b { width: 7 } } width: 8 } }
\* @keyframes k { @at-root (without: keyframes) { b { width: 7 } } }
AtRootQueryPrograms ==
    {StyleSheet(Mixins, Functions, body) : body \in
        {<<AstMedia(1, ScreenQuery,
              <<AstRuleSet(3, <<AstAtRootWithout(2, "media", AtRootB.body),
                                AstStyle(6, NumberExpr(8))>>)>>)>>,
         <<AstUnknownAtRule(1, "keyframes",
              <<AstAtRootWithout(2, "keyframes", AtRootB.body)>>)>>}}

\* @each $x in (1, 2) { @warn $x } @warn 5
WarnLoopProgram ==
    StyleSheet(Mixins, Functions,
        <<AstEach(1, <<"x">>, ListOneTwo, <<AstWarn(2, VariableExpr("x"))>>),
          AstWarn(3, NumberExpr(5))>>)

\* @warn in @for and @while, in a mixin included twice, with a value that
\* fails to evaluate, and twice in a loop body
WarnPrograms ==
    {StyleSheet(Mixins, Functions, body) : body \in
        {<<Wrap("for", 1, <<AstWarn(2, NumberExpr(5))>>), AstWarn(3, NumberExpr(6))>>,
         <<Wrap("while", 1, <<AstWarn(2, NumberExpr(5))>>)>>,
         <<AstInclude(1, "warns", FALSE, <<>>), AstInclude(2, "warns", FALSE, <<>>)>>,
         <<AstWarn(2, VariableExpr("y")), AstWarn(3, NumberExpr(5))>>,
         <<AstEach(1, <<"x">>, ListOneTwo,
                   <<AstWarn(2, VariableExpr("x")), AstWarn(3, VariableExpr("x"))>>)>>}}
        \cup {WarnLoopProgram}

\* a { @for $i from 1 to 1 { width: 7 } width: 8 }: the range is empty
EmptyForProgram ==
    StyleSheet(Mixins, Functions,
        <<AstRuleSet(100,
            <<AstForStmt(1, AstFor("i", Rational(1, 1), Rational(1, 1), TRUE),
                         <<AstStyle(3, NumberExpr(7))>>),
              AstStyle(102, NumberExpr(8))>>)>>)

\* the values $a holds when calc($a) is evaluated
CalculationValues ==
    {NumberExpr(1), StringExpr("x"), TrueExpr, NullExpr, ListOneTwo,
     MapExpr(<<Entry(Num(1), Num(2))>>)}

\* $a: value; a { color: calc($a); width: 8 }, the same with calc($b) and
\* $b undefined, and a { color: calc(1) }
CalculationPrograms ==
    {StyleSheet(Mixins, Functions,
        <<AstDecl(1, AstVariableDecl("a", value, FALSE, FALSE)),
          AstRuleSet(2, <<AstStyle(3, CalculationExpr(<<VariableExpr(name)>>)),
                          AstStyle(4, NumberExpr(8))>>)>>) :
        value \in CalculationValues, name \in {"a", "b"}}
      \cup {StyleSheet(Mixins, Functions,
                <<AstRuleSet(2, <<AstStyle(3, CalculationExpr(<<NumberExpr(1)>>))>>)>>)}

\* the urls main.scss imports
ImportUrls == {<<"lib", "a">>, <<"lib", "d">>, <<"b">>, <<"c">>, <<"missing">>}

\* @import "url"; a { width: 8 }
ImportPrograms ==
    {StyleSheet(Mixins, Functions,
        <<AstImportRule(1, url), AstRuleSet(2, <<AstStyle(3, NumberExpr(8))>>)>>) :
        url \in ImportUrls}

Programs ==
    {FunctionProgram(children) : children \in FunctionBodies}
        \cup ImportPrograms
        \cup CalculationPrograms
        \cup {EmptyForProgram}
        \cup WarnPrograms
        \cup AtRootPrograms
        \cup AtRootQueryPrograms
        \cup StylePrograms
        \cup MediaPrograms
        \cup ExtendPrograms
        \cup DeclarationPrograms
        \cup {RuleMediaProgram}
        \cup {EachRuleProgram, EachPairsProgram, ContentProgram, NoContentProgram}
        \cup ContentScopePrograms

VisitStylesheet == \E p \in Programs : StartProgram(p)

NextEval ==
    \/ VisitStylesheet
    \/ VisitImport
    \/ VisitStyle
    \/ VisitStyleCall
    \/ VisitReturn
    \/ VisitErrorRule
    \/ VisitDecl
    \/ VisitIf
    \/ VisitEach
    \/ VisitFor
    \/ VisitWhile
    \/ VisitRuleSet
    \/ VisitInclude
    \/ VisitContentRule
    \/ VisitUnknownAtRule
    \/ VisitAtRootRule
    \/ VisitMedia
    \/ VisitExtend
    \/ VisitWarn
    \/ LoopNext
    \/ Complete
    \/ FunctionFinishedWithoutReturn
    \/ StylesheetDone
    \/ ReceiveValue
    \/ PropagateError
    \/ EvalFinish

(***************************************************************************)
(* Properties of the CssTree                                               *)
(***************************************************************************)
\* the indices added under parent p, in insertion order, read from the history
AddedChildren(p) ==
    SelectSeq([i \in 1..Len(added) |-> i], LAMBDA i : added[i].parent = p)

\* the statement added as slot i together with everything added below it
RECURSIVE Subtree(_)
Subtree(i) ==
    LET ch == AddedChildren(i)
    IN  [kind |-> added[i].stmt.kind,
         id   |-> added[i].stmt.id,
         body |-> [k \in 1..Len(ch) |-> Subtree(ch[k])]]

\* every statement that occurs in a list of statements, at any depth
RECURSIVE AllNodes(_)
AllNodes(seq) ==
    UNION {{seq[k]} \cup AllNodes(seq[k].body) : k \in 1..Len(seq)}

\* how often idx occurs in the child lists of parent_to_child
Occurrences(idx) ==
    Cardinality({<<p, k>> \in (DOMAIN parent_to_child) \X (1..Len(stmts)) :
                   /\ k <= Len(parent_to_child[p])
                   /\ parent_to_child[p][k] = idx})

\* C1: finish() returns exactly the statements added directly under the root,
\* in insertion order, each with everything that was added below it still
\* inside it (nothing lost, duplicated or flattened); the root slot is not
\* emitted and finish() does not abort.
C1_FinishReturnsRootStatements ==
    /\ tree_pc # "panicked"
    /\ tree_pc = "finished" =>
         LET rc == AddedChildren(ROOT)
         IN  /\ output = [k \in 1..Len(rc) |-> Subtree(rc[k])]
             /\ \A k \in 1..Len(output) : output[k] # NoStmt

C1_Witness ==
    /\ tree_pc = "finished"
    /\ Len(output) >= 2
    /\ \E k \in 1..Len(output) :
         /\ Len(output[k].body) >= 1
         /\ Len(output[k].body[1].body) >= 1

\* C2: before finish(), the two maps describe a tree rooted at node 0: every
\* non-root slot has a child_to_parent entry, occurs exactly once in all child
\* lists and that once in the list of its recorded parent, its parent has a
\* smaller index, the root has no parent, and a node that is not a key of
\* parent_to_child is the parent of no node.
C2_MapsDescribeTree ==
    tree_pc = "building" =>
        /\ ROOT \notin DOMAIN child_to_parent
        /\ DOMAIN child_to_parent = 1..(Len(stmts) - 1)
        /\ \A i \in 1..(Len(stmts) - 1) :
             /\ child_to_parent[i] < i
             /\ child_to_parent[i] >= ROOT
             /\ Occurrences(i) = 1
             /\ child_to_parent[i] \in DOMAIN parent_to_child
             /\ \E k \in 1..Len(parent_to_child[child_to_parent[i]]) :
                  parent_to_child[child_to_parent[i]][k] = i
        /\ \A n \in 0..(Len(stmts) - 1) :
             n \notin DOMAIN parent_to_child =>
                 ~ \E c \in DOMAIN child_to_parent : child_to_parent[c] = n

C2_Witness ==
    /\ tree_pc = "building"
    /\ \E c \in DOMAIN child_to_parent :
         /\ child_to_parent[c] # ROOT
         /\ child_to_parent[c] \in DOMAIN child_to_parent
         /\ child_to_parent[child_to_parent[c]] # ROOT
    /\ \E n \in 1..(Len(stmts) - 1) : n \notin DOMAIN parent_to_child

\* C3: compaction is bottom-up and order-preserving: after finish() every
\* statement that was used as a non-root parent holds its children in the
\* order they were added, each child complete with its own descendants; every
\* slot that was spliced into a parent is a tombstone and no tombstone occurs
\* anywhere in the output.
C3_CompactionBottomUpInOrder ==
    tree_pc = "finished" =>
        /\ \A i \in 1..Len(added) :
             AddedChildren(i) # <<>> =>
                 \E n \in AllNodes(output) :
                     /\ n.id = i
                     /\ n.body = [k \in 1..Len(AddedChildren(i)) |->
                                     Subtree(AddedChildren(i)[k])]
        /\ \A i \in 1..Len(added) :
             added[i].parent # ROOT => Slot(stmts, i) = NoStmt
        /\ NoStmt \notin AllNodes(output)

C3_Witness ==
    /\ tree_pc = "finished"
    /\ \E n \in AllNodes(output) :
         /\ Len(n.body) >= 2
         /\ \E k \in 1..Len(n.body) : Len(n.body[k].body) >= 1

(***************************************************************************)
(* Properties of variable declarations                                     *)
(***************************************************************************)
\* a non-null binding of name is reachable through the chain or the global scope
NonNullReachable(sc, gs, name) ==
    var_exists(sc, gs, name) /\ get_var(sc, gs, name) # Null

\* C4: a `!default` declaration leaves every scope unchanged and does not
\* evaluate its value expression if and only if a non-null binding of the
\* name is reachable through the scope chain or the global scope; otherwise
\* it does exactly what the same declaration without `!default` does.
C4_DefaultSkipsIffNonNullBinding ==
    [][(decl_count' # decl_count /\ last_decl'.decl.is_guarded) =>
        LET d == last_decl'.decl
            bound == NonNullReachable(scopes, global_scope, d.name)
            plain == variable_decl_outcome([d EXCEPT !.is_guarded = FALSE], scopes,
                                           global_scope, in_semi_global, module_config)
        IN  /\ bound <=> (/\ scopes' = scopes
                          /\ global_scope' = global_scope
                          /\ ~last_decl'.evaluated)
            /\ bound => last_decl'.result = "ok"
            /\ ~bound => (/\ scopes' = plain.scopes
                          /\ global_scope' = plain.global
                          /\ last_decl'.evaluated = plain.evaluated
                          /\ last_decl'.result = plain.result)
      ]_vars

\* a `!default` declaration has just been skipped inside a nested scope
C4_Witness ==
    /\ last_decl.decl.is_guarded
    /\ ~last_decl.evaluated
    /\ last_decl.result = "ok"
    /\ Len(scopes) >= 1
    /\ NonNullReachable(scopes, global_scope, last_decl.decl.name)

(***************************************************************************)
(* Properties of callables                                                 *)
(***************************************************************************)
\* what a default expression of the model evaluates to in the callee's scope
DefaultValue(expr, callee) ==
    IF expr.e = "Number" THEN Num(expr.n) ELSE callee[expr.name]

\* C5: when the body of a user-defined callable runs, the declared parameters
\* are bound in declaration order: the i-th takes the i-th positional value if
\* there is one, otherwise the named argument of its name if supplied,
\* otherwise the value of its default expression.
C5_ParametersBoundInOrder ==
    last_call.body_ran =>
        \A i \in 1..Len(last_call.decl.args) :
            LET name == last_call.decl.args[i].name
                ev == last_call.evaluated
            IN  /\ name \in DOMAIN last_call.callee
                /\ last_call.callee[name] =
                     IF i <= Len(ev.positional) THEN ev.positional[i]
                     ELSE IF name \in DOMAIN ev.named THEN ev.named[name]
                     ELSE DefaultValue(last_call.decl.args[i].default[1], last_call.callee)

\* declaration (a, b) called with (1, b: 3): the body sees a = 1, b = 3
C5_Witness ==
    /\ last_call.body_ran
    /\ last_call.decl = ArgumentDeclaration(<<Argument("a", None), Argument("b", None)>>,
                                            None)
    /\ last_call.inv = ArgumentInvocation(<<NumberExpr(1)>>,
                                          MapPut(EmptyMap, "b", NumberExpr(3)), None, None)
    /\ last_call.callee["a"] = Num(1)
    /\ last_call.callee["b"] = Num(3)

\* the evaluated arguments of the last call exceed what its declaration names
ExcessPositional ==
    Len(last_call.evaluated.positional) > Len(last_call.decl.args)

UnknownNamed ==
    (DOMAIN last_call.evaluated.named) \ DeclaredNames(last_call.decl)

\* C6: a callable without rest parameter called with a named argument that is
\* no declared parameter, or with more positional values than declared
\* parameters, returns an error naming that argument or the count, and its
\* body is not executed.
C6_ExcessArgumentsRejected ==
    (/\ last_call.evaluated.status = "ok"
     /\ last_call.decl.rest = None
     /\ (ExcessPositional \/ UnknownNamed # {})) =>
        /\ last_call.outcome = "err"
        /\ ~last_call.body_ran
        /\ \/ /\ last_call.error.kind = "too_many"
              /\ ExcessPositional
              /\ last_call.error.n = Len(last_call.evaluated.positional)
           \/ /\ last_call.error.kind = "unknown_name"
              /\ last_call.error.name \in UnknownNamed

\* declaration (a, b) called with (1, c: 4)
C6_Witness ==
    /\ last_call.decl = ArgumentDeclaration(<<Argument("a", None), Argument("b", None)>>,
                                            None)
    /\ last_call.inv = ArgumentInvocation(<<NumberExpr(1)>>,
                                          MapPut(EmptyMap, "c", NumberExpr(4)), None, None)
    /\ last_call.outcome = "err"
    /\ last_call.error.name = "c"

\* the named arguments of the last call that no declared parameter consumed
Unconsumed ==
    LET ev == last_call.evaluated
        consumed == {last_call.decl.args[i].name :
                       i \in (Len(ev.positional) + 1)..Len(last_call.decl.args)}
    IN  [k \in (DOMAIN ev.named) \ consumed |-> ev.named[k]]

\* C7: with a rest parameter, a call with excess positional values and/or
\* named arguments that match no declared parameter succeeds: the rest
\* parameter is bound to an argument list whose elements are the unconsumed
\* positional tail and whose keywords are the unconsumed named arguments, the
\* body runs and the call does not abort after it.
C7_RestParameterTakesExcess ==
    (/\ last_call.evaluated.status = "ok"
     /\ last_call.decl.rest # None
     /\ last_call.outcome # "err"
     /\ (ExcessPositional \/ UnknownNamed # {})) =>
        /\ last_call.body_ran
        /\ last_call.outcome \in {"entered", "ok"}
        /\ LET r == last_call.callee[last_call.decl.rest[1]]
               ev == last_call.evaluated
           IN  /\ r.kind = "ArgList"
               /\ r.elems = SubSeq(ev.positional, Len(last_call.decl.args) + 1,
                                   Len(ev.positional))
               /\ r.kw = Unconsumed

\* C8: in eval_args a rest map adds its entries to the named arguments; a rest
\* list or argument list appends its elements to the positional arguments
\* (and an argument list adds its keywords to the named ones) and the
\* returned separator is that list's separator; any other value is appended
\* as one positional argument.
C8_RestArgumentSpread ==
    (/\ last_call.evaluated.status = "ok"
     /\ last_call.rest_value # None) =>
        LET rest == last_call.rest_value[1]
            ev == last_call.evaluated
        IN  CASE rest.kind = "Map" ->
                    \A i \in 1..Len(rest.entries) :
                        /\ rest.entries[i].k.text \in DOMAIN ev.named
                        /\ ev.named[rest.entries[i].k.text] = rest.entries[i].v
              [] rest.kind \in {"List", "ArgList"} ->
                    /\ Len(ev.positional) >= Len(rest.elems)
                    /\ SubSeq(ev.positional, Len(ev.positional) - Len(rest.elems) + 1,
                              Len(ev.positional)) = without_slash_all(rest.elems)
                    /\ \A k \in DOMAIN rest.kw : k \in DOMAIN ev.named
                    /\ ev.separator = rest.sep
              [] OTHER ->
                    /\ Len(ev.positional) >= 1
                    /\ ev.positional[Len(ev.positional)] = without_slash(rest)

\* C9: a keyword-rest expression that is not a map, or a rest or keyword-rest
\* map with a key that is not a string, makes the call return an error: the
\* process does not abort and no body is executed.
C9_BadKeywordRestIsError ==
    LET bad_key(v) == v.kind = "Map" /\ \E i \in 1..Len(v.entries) :
                                            v.entries[i].k.kind # "String"
        bad_rest == last_call.rest_value # None /\ bad_key(last_call.rest_value[1])
        bad_kw == /\ last_call.inv.keyword_rest # None
                  /\ \/ last_call.inv.keyword_rest[1].e # "Map"
                     \/ bad_key(last_call.inv.keyword_rest[1].val)
    IN  (bad_rest \/ bad_kw) =>
            /\ last_call.outcome = "err"
            /\ ~last_call.body_ran
            /\ call_pc # "panicked"

\* the numbers from, from + d, ... that an @for over integer bounds is to bind:
\* |to - from| of them, and one more (to itself) in the inclusive form
ExpectedIterations(fs) ==
    LET from == fs.from.num
        to == fs.to.num
        d == IF from <= to THEN 1 ELSE -1
        dist == IF from <= to THEN to - from ELSE from - to
        count == IF fs.is_exclusive THEN dist ELSE dist + 1
    IN  [k \in 1..count |-> from + (k - 1) * d]

IsPrefix(s, t) == Len(s) <= Len(t) /\ SubSeq(t, 1, Len(s)) = s

IntegerBounds(fs) == fs.from.den = 1 /\ fs.to.den = 1

\* C10: for integer bounds, visit_for_stmt binds the loop variable to from,
\* from + d, from + 2d, ... (d = +1 when from <= to, else -1), stopping before
\* to in the exclusive form and after to in the inclusive form: while the loop
\* runs the values bound so far are a prefix of that sequence, and a loop that
\* completes without its body yielding a value has bound exactly that sequence
\* (so 1 to 3 gives 1,2; 1 through 3 gives 1,2,3; 3 to 1 gives 3,2; and an
\* exclusive range with from = to gives no iteration)
C10_ForIteratesRange ==
    (for_loop.pc # "idle" /\ IntegerBounds(for_stmt)) =>
        /\ IsPrefix(for_iters, ExpectedIterations(for_stmt))
        /\ (for_loop.pc = "done" /\ for_loop.result = None) =>
               for_iters = ExpectedIterations(for_stmt)
        /\ (for_loop.pc = "done" /\ for_loop.result = None
                /\ for_stmt.is_exclusive /\ for_stmt.from = for_stmt.to) =>
               for_iters = <<>>
        /\ (for_loop.pc = "done" /\ for_loop.result = None
                /\ for_stmt = AstFor("i", Rational(1, 1), Rational(3, 1), TRUE)) =>
               for_iters = <<1, 2>>
        /\ (for_loop.pc = "done" /\ for_loop.result = None
                /\ for_stmt = AstFor("i", Rational(1, 1), Rational(3, 1), FALSE)) =>
               for_iters = <<1, 2, 3>>
        /\ (for_loop.pc = "done" /\ for_loop.result = None
                /\ for_stmt = AstFor("i", Rational(3, 1), Rational(1, 1), TRUE)) =>
               for_iters = <<3, 2>>

\* a descending inclusive loop ran to completion
C10_Witness ==
    /\ for_loop.pc = "done"
    /\ for_loop.result = None
    /\ for_stmt = AstFor("i", Rational(3, 1), Rational(1, 1), FALSE)
    /\ for_iters = <<3, 2, 1>>

\* |to - from|, and one more in the inclusive form
IterationCount(fs) ==
    LET from == to_i64(fs.from)
        to == to_i64(fs.to)
        dist == IF to >= from THEN to - from ELSE from - to
    IN  IF fs.is_exclusive THEN dist ELSE dist + 1

\* C39: visit_for_stmt ends when its body does.  For every pair of integer
\* bounds, ascending or descending, inclusive or exclusive, the call reaches
\* the end of the loop (it does not panic), a loop that completes has run
\* exactly |to - from| iterations (plus one when inclusive) and no loop runs
\* more, and a visit of the body changes neither the terminal nor the
\* direction and moves the counter by exactly one step, whatever it binds to
\* the loop variable
C39_ForTerminates ==
    /\ []((for_loop.pc # "idle" /\ IntegerBounds(for_stmt)) =>
              /\ for_loop.pc # "panicked"
              /\ Len(for_iters) <= IterationCount(for_stmt)
              /\ (for_loop.pc = "done" /\ for_loop.result = None) =>
                     Len(for_iters) = IterationCount(for_stmt))
    /\ [][for_loop.pc \in {"loop", "body"} =>
             /\ for_loop'.to = for_loop.to
             /\ for_loop'.direction = for_loop.direction
             /\ for_loop'.i \in {for_loop.i, wrapping_add(for_loop.i, for_loop.direction)}
             /\ (for_loop.pc = "body" /\ for_loop'.pc = "loop") =>
                    for_loop'.i = wrapping_add(for_loop.i, for_loop.direction)]_vars

(***************************************************************************)
(* Properties of the statement evaluator                                   *)
(***************************************************************************)
\* the values read by the visits of statement id, in order
ValuesRead(id) ==
    LET visits == SelectSeq(ev_trace, LAMBDA e : e.id = id)
    IN  [k \in 1..Len(visits) |-> visits[k].val]

\* the statements visit_stmt was called on, in order
IdsVisited == [k \in 1..Len(ev_trace) |-> ev_trace[k].id]

\* a rule node of the output holding the given declarations
OutputRule(id, values) ==
    [kind |-> "RuleSet", id |-> id,
     body |-> [k \in 1..Len(values) |-> NewStmt("Style", values[k])]]

\* C11: visit_each_stmt evaluates its body once per element of the list, in list
\* order, with the loop variable bound to that element: at the start of every
\* iteration the variables hold the current element (destructured positionally,
\* null for missing positions when there are several variables), so
\* @each $x in (1, 2) { a { width: $x } } visits the rule twice and the output
\* is two rules holding width: 1 and width: 2 in that order
C11_EachIteratesList ==
    /\ \A n \in 1..Len(ev_stack) :
          LET f == ev_stack[n]
              list == as_list(f.stmt.expr.val)
              done == Len(list) - Len(f.items)
          IN  f.kind = "Each" =>
                /\ done >= 0
                /\ f.items = SubSeq(list, done + 1, Len(list))
                /\ f.started = (done > 0)
                /\ (n = Len(ev_stack) /\ f.started /\ f.todo = f.stmt.body
                        /\ ev_pending.status = "none") =>
                      LET inner == scopes[Len(scopes)]
                          names == f.stmt.vars
                          elems == as_list(list[done])
                      IN  IF Len(names) = 1
                          THEN inner[names[1]] = list[done]
                          ELSE \A k \in 1..Len(names) :
                                  inner[names[k]] =
                                      IF k <= Len(elems) THEN elems[k] ELSE Null
    /\ (ev_program = EachRuleProgram /\ ev_pc = "done") =>
          /\ IdsVisited = <<1, 2, 3, 2, 3>>
          /\ ValuesRead(3) = <<Num(1), Num(2)>>
    /\ (ev_program = EachRuleProgram /\ tree_pc = "finished") =>
          output = <<OutputRule(2, <<1>>), OutputRule(2, <<2>>)>>
    /\ (ev_program = EachPairsProgram /\ ev_pc = "done") =>
          /\ IdsVisited = <<1, 2, 3, 4, 2, 3, 4>>
          /\ ValuesRead(3) = <<Num(1), Num(3)>>
          /\ ValuesRead(4) = <<Num(2), Null>>
    /\ (ev_program = EachPairsProgram /\ tree_pc = "finished") =>
          output = <<OutputRule(2, <<1, 2>>), OutputRule(2, <<3>>)>>

\* both stylesheets were evaluated to their output
C11_Witness ==
    /\ ev_program = EachPairsProgram
    /\ tree_pc = "finished"
    /\ Len(output) = 2

RECURSIVE StmtIds(_)
\* the statements of a body, nested ones included
StmtIds(body) ==
    IF body = <<>> THEN {}
    ELSE {Head(body).id} \cup StmtIds(Head(body).body) \cup StmtIds(Head(body).els)
             \cup StmtIds(Tail(body))

\* the statements of the function bodies of the program
FunctionStmtIds ==
    UNION {StmtIds(ev_program.functions[n].children) : n \in DOMAIN ev_program.functions}

\* the handlers that pass a yielded value on to their caller
ControlFlowKinds == {"If", "Each", "For", "While"}

\* C12: inside @if/@each/@for/@while, as soon as a body statement yields a return
\* value no later statement of that body and no later iteration is evaluated
\* and the construct yields that same value to its caller, through any nesting
\* of control flow up to the function call, which returns that value to the
\* expression that made the call: once a statement of a function body has
\* yielded a value, the next statement visited is not a statement of a function
\* body, and each step hands the unchanged value one handler up
C12_ReturnStopsControlFlow ==
    /\ [](\A i \in 1..(Len(ev_trace) - 1) :
             (ev_trace[i].k = "Return" /\ ev_trace[i].res = "value") =>
                 ev_trace[i + 1].id \notin FunctionStmtIds)
    /\ []((ev_pc = "running" /\ ev_pending.status = "value") =>
             Top.kind \in ControlFlowKinds \cup {"FunctionCall", "Style"})
    /\ [][(ev_pc = "running" /\ ev_pending.status = "value") =>
             /\ ev_trace' = ev_trace
             /\ ev_stack' = Pop
             /\ Top.kind \in ControlFlowKinds \cup {"FunctionCall"} =>
                   ev_pending' = ev_pending
             /\ Top.kind = "Style" =>
                   /\ ev_pending' = NoPending
                   /\ stmts' = Append(stmts, NewStmt("Style", ev_pending.val.n))]_vars

\* a value returned inside @while inside @each has reached the function call
C12_Witness ==
    /\ ev_pc = "running"
    /\ ev_pending.status = "value"
    /\ Top.kind = "FunctionCall"
    /\ last_visit.k = "Each"
    /\ last_visit.status = "value"
    /\ \E i \in 1..Len(ev_trace) : ev_trace[i].k = "While"

\* the error message has the name among its pieces
Mentions(msg, name) == \E i \in 1..Len(msg) : msg[i] = name

\* the children of a user-defined function were all visited and none yielded
FellOffTheEnd ==
    /\ ev_pc = "running"
    /\ ev_stack # <<>>
    /\ ev_pending.status = "none"
    /\ Top.kind = "FunctionCall"
    /\ Top.todo = <<>>

\* C13: a call of a user-defined function whose body finishes without a
\* statement yielding a value is an error that identifies the function name
\* and the call site, and never a value
C13_NoReturnIsErrorNamingFunction ==
    [][FellOffTheEnd =>
          /\ ev_pending'.status = "error"
          /\ ev_pending'.span = Top.stmt.id
          /\ Mentions(ev_pending'.msg, Top.stmt.expr.name)]_vars

\* the declarations of the output, at any depth
RECURSIVE StyleValues(_)
StyleValues(nodes) ==
    IF nodes = <<>> THEN <<>>
    ELSE (IF Head(nodes).kind = "Style" THEN <<Head(nodes).id>>
          ELSE StyleValues(Head(nodes).body)) \o StyleValues(Tail(nodes))

\* C14: @content evaluates the statements of the block passed at the @include,
\* at that point, and their nodes are added under the insertion parent that is
\* current at the @content: @mixin m { @content } a { @include m { width: 7 } }
\* yields the rule a holding width: 7; without a block @content adds nothing
\* and is not an error
C14_ContentRunsBlockUnderParent ==
    /\ \A n \in 1..Len(ev_stack) :
          LET f == ev_stack[n]
          IN  f.kind = "ContentRule" =>
                 /\ f.saved.content # None
                 /\ \E k \in 0..Len(f.saved.content[1].body) :
                       f.todo = SubSeq(f.saved.content[1].body, k + 1,
                                       Len(f.saved.content[1].body))
                 /\ (n = Len(ev_stack) /\ ev_pending.status = "none") =>
                       visitor_parent = f.saved.parent
    /\ (ev_program = ContentProgram /\ ev_pc # "running") =>
          /\ ev_pc = "done"
          /\ IdsVisited = <<1, 2, 20, 3>>
    /\ (ev_program = ContentProgram /\ tree_pc = "finished") =>
          output = <<OutputRule(1, <<7>>)>>
    /\ (ev_program = NoContentProgram /\ ev_pc # "running") =>
          /\ ev_pc = "done"
          /\ ev_pending = NoPending
          /\ IdsVisited = <<1, 2, 20>>
          /\ \A i \in 1..Len(stmts) : stmts[i].kind # "Style"
    /\ (ev_program = NoContentProgram /\ tree_pc = "finished") =>
          StyleValues(output) = <<>>

\* the block of the @include was emitted under a
C14_Witness ==
    /\ ev_program = ContentProgram
    /\ tree_pc = "finished"
    /\ StyleValues(output) = <<7>>

\* the block an @include passes to its mixin
BlockPassed(f) ==
    IF f.stmt.has_content
    THEN Some(CallableContentBlock(f.stmt.body, f.saved.content))
    ELSE None

RECURSIVE ActiveContent(_)
\* the content of the innermost mixin body or content block that is running:
\* the block passed to the @include, or what was active at the @include that
\* supplied the block
ActiveContent(stack) ==
    IF stack = <<>> THEN None
    ELSE LET f == stack[Len(stack)]
         IN  CASE f.kind = "Include" -> BlockPassed(f)
               [] f.kind = "ContentRule" -> f.saved.content[1].content_at_decl
               [] OTHER -> ActiveContent(SubSeq(stack, 1, Len(stack) - 1))

\* C15: content blocks pass through nested mixin calls: while a block B runs
\* the active content is the one that was active at the @include that supplied
\* B, while a mixin body runs it is exactly the block passed to that @include
\* (none if no block was passed), and after @content returns it is again the
\* one of the executing mixin
C15_ContentPassesThroughMixins ==
    /\ content = ActiveContent(ev_stack)
    /\ \A n \in 1..Len(ev_stack) :
          ev_stack[n].kind = "ContentRule" =>
             \E m \in 1..(n - 1) :
                /\ ev_stack[m].kind = "Include"
                /\ ev_stack[n].saved.content = BlockPassed(ev_stack[m])
                /\ ActiveContent(SubSeq(ev_stack, 1, n)) = ev_stack[m].saved.content
    /\ (last_visit.k = "ContentRule" /\ ev_stack # <<>> /\ Top.kind = "Include") =>
          content = BlockPassed(Top)

\* @include outer { width: 7 }: the @content of m runs the block { @content }
\* of outer, whose @content runs the block of the stylesheet
C15_Witness ==
    /\ Len(ev_stack) >= 5
    /\ Top.kind = "ContentRule"
    /\ Top.stmt.id = 22
    /\ \E n \in 1..(Len(ev_stack) - 1) :
          ev_stack[n].kind = "ContentRule" /\ ev_stack[n].stmt.id = 20
    /\ Top.todo # <<>>
    /\ Cur.k = "Style"
    /\ content = None

\* C16: whenever visit_stmt or visit_expr returns successfully (Ok(None) or
\* Ok(Some(val))), the ContextFlags value of the visitor is bit for bit the one
\* it had when the call started
C16_FlagsRestoredOnSuccess ==
    last_visit.status \in {"ok", "value"} => last_visit.exit = last_visit.entry

\* an @include at the top of a style rule has returned and IN_MIXIN, set while
\* the mixin ran, is clear again
C16_Witness ==
    /\ ev_pc = "running"
    /\ last_visit.k = "Include"
    /\ last_visit.status = "ok"
    /\ "IN_MIXIN" \notin flags
    /\ \E i \in 1..Len(ev_trace) : ev_trace[i].k = "ContentRule"

\* C17: whenever visit_stmt or visit_expr returns an error, the ContextFlags value
\* of the visitor equals the one it had when the call started
C17_FlagsRestoredOnError ==
    last_visit.status = "error" => last_visit.exit = last_visit.entry

(***************************************************************************)
(* Properties of merge_media_queries and @media                            *)
(***************************************************************************)
\* the pair of the cross product at position k, queries1 outermost
PairAt(queries1, queries2, k) ==
    MediaQueryMerge(queries1[((k - 1) \div Len(queries2)) + 1],
                    queries2[((k - 1) % Len(queries2)) + 1])

\* the pairwise results in cross-product order
PairResults(queries1, queries2) ==
    [k \in 1..(Len(queries1) * Len(queries2)) |-> PairAt(queries1, queries2, k)]

IsSuccess(r) == r.tag = "Success"

\* the queries of the pairs that merged, in cross-product order
Successes(queries1, queries2) ==
    LET kept == SelectSeq(PairResults(queries1, queries2), IsSuccess)
    IN  [k \in 1..Len(kept) |-> kept[k].query]

\* C18: merge_media_queries considers every pair of the cross product: an Empty
\* pair contributes nothing, a Success pair contributes exactly one query,
\* appended in cross-product order, a single Unrepresentable pair makes the
\* whole result None whatever the other pairs are, and when every pair is
\* Empty the result is a present, empty list
C18_MergeIsCrossProduct ==
    merge_call.called =>
       LET results == PairResults(merge_call.queries1, merge_call.queries2)
           pairs == 1..Len(results)
       IN  /\ (\E k \in pairs : results[k].tag = "Unrepresentable") =>
                 merge_call.result = None
           /\ (\A k \in pairs : results[k].tag # "Unrepresentable") =>
                 merge_call.result =
                     Some(Successes(merge_call.queries1, merge_call.queries2))
           /\ (\A k \in pairs : results[k].tag = "Empty") =>
                 merge_call.result = Some(<<>>)

\* two lists of two queries with an Empty pair and two Success pairs
C18_Witness ==
    /\ merge_call.called
    /\ Len(merge_call.queries1) = 2
    /\ Len(merge_call.queries2) = 2
    /\ merge_call.result # None
    /\ Len(merge_call.result[1]) = 2
    /\ merge_call.result[1][1] # merge_call.result[1][2]
    /\ \E k \in 1..4 : PairAt(merge_call.queries1, merge_call.queries2, k).tag = "Empty"

\* how many times q occurs in a list
CountOf(q, list) == Cardinality({k \in 1..Len(list) : list[k] = q})

\* C19: with a symmetric pairwise merge, merge_media_queries(A, B) and
\* merge_media_queries(B, A) are both None or both Some, and when Some they
\* hold the same merged queries up to order
C19_MergeIsSymmetric ==
    merge_call.called =>
       LET ab == merge_call.result
           ba == merge_media_queries(merge_call.queries2, merge_call.queries1)
       IN  /\ \A q1 \in MediaQueries, q2 \in MediaQueries :
                 MediaQueryMerge(q1, q2) = MediaQueryMerge(q2, q1)
           /\ (ab = None) = (ba = None)
           /\ ab # None =>
                 /\ Len(ab[1]) = Len(ba[1])
                 /\ \A k \in 1..Len(ab[1]) : CountOf(ab[1][k], ab[1]) = CountOf(ab[1][k], ba[1])

\* a merge whose result comes out in another order when the lists are swapped
C19_Witness ==
    /\ merge_call.called
    /\ merge_call.result # None
    /\ Len(merge_call.result[1]) >= 2
    /\ merge_media_queries(merge_call.queries2, merge_call.queries1) # merge_call.result

\* the merge visit_media_rule computes for the @media it is about to visit
ActiveMerge == merge_media_queries(media_queries[1], Cur.query)

\* @media screen { @media print { a { width: 7 } } b { width: 8 } }
ScreenPrintProgram ==
    StyleSheet(Mixins, Functions,
        <<AstMedia(1, <<MediaQuery("", "screen", {})>>,
              <<AstMedia(2, <<MediaQuery("", "print", {})>>,
                         <<AstRuleSet(3, <<AstStyle(4, NumberExpr(7))>>)>>),
                AstRuleSet(5, <<AstStyle(6, NumberExpr(8))>>)>>)>>)

\* C20: an @media visited while a query list is active whose merge with that
\* list is empty is dropped: no node is added to the output tree, its children
\* are not visited and contribute nothing, and the active queries are the same
\* afterwards; when the merge is unrepresentable the rule is emitted with its
\* own, unmerged queries
C20_EmptyMergeDropsMediaRule ==
    /\ [][(Ready("Media") /\ media_queries # None /\ ActiveMerge = Some(<<>>)) =>
             /\ UNCHANGED vars_tree
             /\ ev_stack' = Advance
             /\ ev_pending' = NoPending
             /\ ev_pc' = "running"
             /\ media_queries' = media_queries
             /\ media_query_sources' = media_query_sources]_vars
    /\ [][(Ready("Media") /\ media_queries # None /\ ActiveMerge = None) =>
             /\ Len(stmts') > Len(stmts)
             /\ stmts'[Len(stmts) + 1] = NewStmt("Media", media_text(Cur.query))
             /\ Len(ev_stack') = Len(ev_stack) + 1
             /\ media_queries' = Some(Cur.query)]_vars
    /\ []((ev_program \in MediaPrograms
             /\ \E i \in 1..Len(ev_trace) : ev_trace[i].id = 2 /\ ev_trace[i].res = "ok") =>
             /\ \A j \in 1..Len(ev_trace) : ev_trace[j].id # 4
             /\ \A k \in 1..Len(stmts) : stmts[k] # NewStmt("Style", 7)
             /\ Cardinality({k \in 1..Len(stmts) : stmts[k].kind = "Media"}) <= 1)
    /\ []((ev_program = ScreenPrintProgram /\ tree_pc = "finished") =>
             output = <<[kind |-> "Media",
                         id |-> media_text(<<MediaQuery("", "screen", {})>>),
                         body |-> <<OutputRule(5, <<8>>)>>]>>)

\* @media print inside @media screen was dropped and the stylesheet finished
C20_Witness ==
    /\ ev_program = ScreenPrintProgram
    /\ tree_pc = "finished"
    /\ Len(output) = 1
    /\ IdsVisited = <<1, 2, 5, 6>>

\* C21: @media inside an open style rule evaluates its body under a fresh copy
\* of that rule, added as a child of the new media node: a declaration of the
\* body never becomes a direct child of a media node, and what follows the
\* @media in the rule lands in the original rule, so
\* a { @media screen { width: 7 } width: 8 } yields a { width: 8 } and
\* @media screen { a { width: 7 } }
C21_MediaCopiesStyleRule ==
    /\ [][(Ready("Media") /\ style_rule_exists(CurrentCtx) /\ declaration_name = None
             /\ ~(media_queries # None /\ ActiveMerge = Some(<<>>))) =>
             /\ Len(stmts') = Len(stmts) + 2
             /\ stmts'[Len(stmts) + 1].kind = "Media"
             /\ stmts'[Len(stmts) + 2] = NewStmt("RuleSet", style_rule[1])
             /\ child_to_parent'[Len(stmts)] = ROOT
             /\ child_to_parent'[Len(stmts) + 1] = Len(stmts)
             /\ visitor_parent' = Some(Len(stmts) + 1)
             /\ Top'.saved.parent = visitor_parent]_vars
    /\ [](tree_pc = "building" =>
             \A idx \in DOMAIN child_to_parent :
                Slot(stmts, idx).kind = "Style" =>
                   Slot(stmts, child_to_parent[idx]).kind # "Media")
    /\ []((ev_program = RuleMediaProgram /\ tree_pc = "finished") =>
             output = <<OutputRule(3, <<8>>),
                        [kind |-> "Media",
                         id |-> media_text(<<MediaQuery("", "screen", {})>>),
                         body |-> <<OutputRule(3, <<7>>)>>]>>)

\* the stylesheet of the claim was evaluated and its output built
C21_Witness ==
    /\ ev_program = RuleMediaProgram
    /\ tree_pc = "finished"
    /\ Len(output) = 2
    /\ IdsVisited = <<3, 1, 4, 6>>

(***************************************************************************)
(* Properties of @extend                                                   *)
(***************************************************************************)
\* C22: @extend visited when no style rule is active, or inside a nested
\* declaration, returns an error and registers nothing with the Extender.
C22_ExtendOutsideRuleIsError ==
    [][(Ready("Extend") /\ (style_rule = None \/ declaration_name # None)) =>
          /\ ev_pending'.status = "error"
          /\ ev_pc' # "panicked"
          /\ extensions' = extensions]_vars

\* the targets of the list that visit_extend_rule rejects
Rejected(list) ==
    {k \in DOMAIN list : Len(list[k]) # 1 \/ ~list[k][1].compound
                           \/ Len(list[k][1].components) # 1}

\* the targets before the first rejected one
Accepted(list) ==
    IF Rejected(list) = {} THEN list
    ELSE SubSeq(list, 1, (CHOOSE k \in Rejected(list) : \A j \in Rejected(list) : k <= j) - 1)

\* C23: inside a style rule and outside nested declarations, an @extend
\* whose list holds a complex target or a compound target of several simple
\* selectors returns an error with the message for that kind of target, and
\* no such target reaches add_extension; the single simple selectors before
\* it, all of them when nothing is rejected, are registered in order under
\* the selector of the current style rule and the active media queries.
C23_OnlySimpleTargetsRegistered ==
    /\ [][(Ready("Extend") /\ style_rule # None /\ declaration_name = None) =>
             LET list == Cur.targets
                 accepted == Accepted(list)
             IN  /\ extensions' = extensions \o
                        [k \in 1..Len(accepted) |->
                            [extender |-> style_rule[1],
                             target |-> accepted[k][1].components[1],
                             media_queries |-> media_queries]]
                 /\ IF Rejected(list) = {}
                    THEN ev_pending'.status = "none"
                    ELSE /\ ev_pending'.status = "error"
                         /\ LET bad == list[Len(accepted) + 1]
                            IN  ev_pending'.msg =
                                  IF Len(bad) # 1 \/ ~bad[1].compound
                                  THEN <<"complex selectors may not be extended.">>
                                  ELSE <<"compound selectors may no longer be extended.">>]_vars
    /\ [](\A k \in DOMAIN extensions : extensions[k].target \in {".a", ".b"})

\* inside @media, .a was registered and the compound target after it rejected
C23_Witness ==
    /\ Len(extensions) = 1
    /\ extensions[1] = [extender |-> 3, target |-> ".a",
                        media_queries |-> Some(<<MediaQuery("", "screen", {})>>)]
    /\ ev_pending.status = "error"
    /\ ev_pending.msg = <<"compound selectors may no longer be extended.">>

(***************************************************************************)
(* Properties of @at-root                                                  *)
(***************************************************************************)
\* the output nodes from par up to the root, read from a child_to_parent map
RECURSIVE ChainOf(_, _)
ChainOf(c2p, par) ==
    IF par = None \/ par = Some(ROOT) THEN {}
    ELSE {par[1]} \cup ChainOf(c2p, IF par[1] \in DOMAIN c2p THEN Some(c2p[par[1]]) ELSE None)

\* the style rules among the ancestors of the insertion parent: what the
\* default query excludes
ExcludedAncestors == {idx \in ChainOf(child_to_parent, visitor_parent) :
                         Slot(stmts, idx).kind = "RuleSet"}

AtRootKinds == {"AtRootRule", "AtRootInPlace"}

\* C24: @at-root without a query. When no ancestor of the insertion parent
\* is a style rule the children are visited in place: no node is added and
\* the parent stays.  Otherwise the new parent is the root, or a copy, added
\* childless under the root, of the innermost ancestor that is not excluded
\* and reaches the root through ancestors that are not excluded; in both
\* cases no excluded style rule is above the new parent, and every node a
\* child of @at-root adds lands below no excluded style rule.  When
\* @at-root returns, with Ok or Err, the insertion parent is the one it
\* started with.
C24_AtRootLeavesExcludedRules ==
    /\ [][(Ready("AtRootRule") /\ Cur.name = "") =>
             LET chain == ChainOf(child_to_parent', visitor_parent')
             IN  /\ \A idx \in chain : stmts'[idx + 1].kind # "RuleSet"
                 /\ IF ExcludedAncestors = {}
                    THEN /\ visitor_parent' = visitor_parent
                         /\ stmts' = stmts
                         /\ child_to_parent' = child_to_parent
                         /\ visitor_parent # None => Top'.kind = "AtRootInPlace"
                    ELSE /\ Top'.kind = "AtRootRule"
                         /\ \/ /\ visitor_parent' = None
                               /\ stmts' = stmts
                            \/ /\ visitor_parent' = Some(Len(stmts))
                               /\ \E anc \in ChainOf(child_to_parent, visitor_parent) :
                                     /\ Slot(stmts, anc).kind # "RuleSet"
                                     /\ stmts' = Append(stmts, Slot(stmts, anc))
                               /\ child_to_parent'[Len(stmts)] = ROOT
                               /\ Len(stmts) \notin DOMAIN parent_to_child']_vars
    /\ [][(ev_pc = "running" /\ ev_stack # <<>> /\ Top.kind \in AtRootKinds
             /\ Len(stmts') > Len(stmts)) =>
             \A idx \in ChainOf(child_to_parent', Some(child_to_parent'[Len(stmts)])) :
                 stmts'[idx + 1].kind # "RuleSet"]_vars
    /\ [][(ev_pc = "running" /\ ev_stack # <<>> /\ Top.kind \in AtRootKinds
             /\ ev_stack' = Pop) => visitor_parent' = Top.saved.parent]_vars
    /\ []((ev_program = MediaAtRootProgram /\ tree_pc = "finished") =>
             output = <<[kind |-> "Media", id |-> media_text(ScreenQuery),
                         body |-> <<OutputRule(3, <<8>>)>>],
                        [kind |-> "Media", id |-> media_text(ScreenQuery),
                         body |-> <<OutputRule(5, <<7>>)>>]>>)

\* @media screen { a { @at-root { b { width: 7 } } width: 8 } } was compiled:
\* b went under a copy of the media rule
C24_Witness ==
    /\ ev_program = MediaAtRootProgram
    /\ tree_pc = "finished"
    /\ Len(output) = 2
    /\ IdsVisited = <<1, 3, 2, 5, 4, 6>>

\* C25: when the query of @at-root excludes the enclosing @media (the
\* enclosing @keyframes) by name, the children are visited with no active
\* media queries (with IN_KEYFRAMES clear), and the previous value is back
\* when @at-root returns.
C25_AtRootQuerySuppressesState ==
    /\ [][(Ready("AtRootRule") /\ Cur.name = "media" /\ media_queries # None) =>
             /\ ev_pc' = "running"
             /\ Top'.kind \in AtRootKinds
             /\ media_queries' = None]_vars
    /\ [][(Ready("AtRootRule") /\ Cur.name = "keyframes" /\ "IN_KEYFRAMES" \in flags) =>
             /\ ev_pc' = "running"
             /\ Top'.kind \in AtRootKinds
             /\ "IN_KEYFRAMES" \notin flags']_vars
    /\ [][(ev_pc = "running" /\ ev_stack # <<>> /\ Top.kind \in AtRootKinds
             /\ ev_stack' = Pop) =>
             /\ media_queries' = Top.saved.media_queries
             /\ ("IN_KEYFRAMES" \in flags') = ("IN_KEYFRAMES" \in Top.saved.flags)]_vars

(***************************************************************************)
(* Properties of @warn and @error                                          *)
(***************************************************************************)
\* the number of entries of the trace that are visits of statement id
VisitsOf(id) == Cardinality({i \in DOMAIN ev_trace : ev_trace[i].id = id})

\* C26: within one visit_stylesheet no two printed warnings have the same
\* span; a visit of @warn prints exactly when its span was not visited
\* before, its value evaluates and quiet is off, so a @warn in a loop body
\* prints in the first iteration only; under quiet nothing is ever printed.
C26_OneWarningPerSpan ==
    /\ [](\A i, j \in DOMAIN warnings : warnings[i].span = warnings[j].span => i = j)
    /\ [](quiet => warnings = <<>>)
    /\ [][Ready("Warn") =>
             LET r == visit_expr(Cur.expr, scopes, global_scope)
             IN  /\ warnings_emitted' = warnings_emitted \cup {Cur.id}
                 /\ warnings' =
                       IF Cur.id \notin warnings_emitted /\ r.ok /\ ~quiet
                       THEN Append(warnings, [message |-> r.val, span |-> Cur.id])
                       ELSE warnings]_vars
    /\ []((ev_program = WarnLoopProgram /\ ev_pc = "done" /\ ~quiet) =>
             warnings = <<[message |-> Num(1), span |-> 2], [message |-> Num(5), span |-> 3]>>)

\* the loop visited its @warn twice and one warning came of it
C26_Witness ==
    /\ ev_program = WarnLoopProgram
    /\ ev_pc = "done"
    /\ ~quiet
    /\ VisitsOf(2) = 2
    /\ Len(warnings) = 2

\* visit_stmt was called on an @error
ErrorVisited == \E i \in DOMAIN ev_trace : ev_trace[i].k = "ErrorRule"

\* C27: once an @error is visited it is the last statement visit_stmt is ever
\* called on (no further loop iteration, no rest of the enclosing body, no
\* later top-level statement), no node is added to the output tree and
\* finish never runs; the error in flight carries the message and the span
\* of the @error through every handler; every step from then on is a handler
\* returning that error to its caller, the last of them visit_stylesheet.
C27_ErrorAbortsStylesheet ==
    /\ [](\A i \in DOMAIN ev_trace : ev_trace[i].k = "ErrorRule" => i = Len(ev_trace))
    /\ [](ErrorVisited =>
             /\ ev_pc \in {"running", "failed"}
             /\ ev_pending = Pending("error", Null, <<"@error">>, ev_trace[Len(ev_trace)].id)
             /\ ev_pc = "failed" <=> ev_stack = <<>>)
    /\ [][ErrorVisited => UNCHANGED <<stmts, parent_to_child, child_to_parent, added,
                                     tree_pc, output, ev_trace, extensions, warnings>>]_vars
    /\ [][ErrorVisited => Len(ev_stack') < Len(ev_stack)]_vars
    /\ []((ErrorVisited /\ ev_pc = "running") => ENABLED PropagateError)

\* a { @each $x in (1, 2) { .. { @error } } width: 8 }: visit_stylesheet
\* returned the error after one iteration, width: 8 was never visited
C27_Witness ==
    /\ ev_pc = "failed"
    /\ ev_pending.span = 3
    /\ \E i \in DOMAIN ev_trace : ev_trace[i].k = "Each"
    /\ ev_trace[Len(ev_trace)].k = "ErrorRule"
    /\ VisitsOf(3) = 1
    /\ VisitsOf(102) = 0
    /\ 102 \in StmtIds(ev_program.body)

(***************************************************************************)
(* Properties of the scopes of loops and calls                             *)
(***************************************************************************)
\* the variables a loop binds
LoopVars(f) ==
    IF f.kind = "For" THEN {f.stmt.for.variable}
    ELSE {f.stmt.vars[i] : i \in DOMAIN f.stmt.vars}

\* the handlers that run their body on another scope chain
ClosureKinds == {"FunctionCall", "Include", "ContentRule"}

\* the step returns from the innermost handler with Ok
ReturnsOk ==
    /\ ev_pc = "running"
    /\ ev_stack # <<>>
    /\ ev_pending.status # "error"
    /\ ev_stack' = Pop
    /\ ev_pc' # "panicked"

\* C28: insert_var_last binds in the innermost open scope.  The variables a
\* @for/@each binds are found in the scope of the loop right after the
\* binding, and from every scope pushed on the same chain while the loop
\* runs; once the loop returned Ok its scope is popped and the variable is
\* found only if it was visible before the loop.  A loop that returns Err
\* leaves its scope open, but no statement is visited after an Err.  The
\* parameters of a callable are bound in the scope of the call, are found
\* from the scopes of nested calls, and when the call returned (Ok or Err)
\* its scope is popped: with no call open no variable is found.
C28_InsertVarLastVisibility ==
    /\ [][(ev_pc = "running" /\ ev_stack # <<>> /\ Top.kind \in {"Each", "For"}
             /\ ev_pending.status = "none" /\ Top.todo = <<>>
             /\ Len(ev_stack') = Len(ev_stack) /\ ev_stack' # ev_stack) =>
             \A name \in LoopVars(Top) :
                 /\ BindingScope(scopes', name) = Len(scopes')
                 /\ Len(scopes') = Len(Top.saved.scopes) + 1]_vars
    /\ [](\A k \in DOMAIN ev_stack :
             (/\ ev_pc = "running"
              /\ ev_pending.status = "none"
              /\ ev_stack[k].kind \in {"Each", "For"}
              /\ ev_stack[k].started
              /\ \A j \in k + 1..Len(ev_stack) : ev_stack[j].kind \notin ClosureKinds) =>
                 \A name \in LoopVars(ev_stack[k]) :
                     BindingScope(scopes, name) > Len(ev_stack[k].saved.scopes))
    /\ [][(ReturnsOk /\ Top.kind \in {"Each", "For"}) =>
             /\ Len(scopes') = Len(Top.saved.scopes)
             /\ scopes' = exit_scope(scopes)
             /\ \A name \in LoopVars(Top) :
                   var_exists(scopes', global_scope', name) =>
                       var_exists(Top.saved.scopes, global_scope, name)]_vars
    /\ [][ev_pending.status = "error" => ev_trace' = ev_trace]_vars
    /\ [](ev_pc = "idle" =>
             /\ Len(scopes) = Len(call_stack)
             /\ \A k \in DOMAIN call_stack :
                   \A name \in DeclaredNames(call_stack[k].call.decl) :
                       BindingScope(scopes, name) >= k
             /\ call_stack = <<>> => \A name \in VarNames \cup {"r", "x", "i"} :
                                         ~var_exists(scopes, global_scope, name))
    /\ [][(ev_pc = "idle" /\ Len(call_stack') < Len(call_stack)) =>
             scopes' = exit_scope(scopes)]_vars

\* a @for inside another construct returned Ok and its variable is gone
C28_Witness ==
    /\ last_visit.k = "For"
    /\ last_visit.status = "ok"
    /\ ev_pc = "running"
    /\ Len(scopes) > 0
    /\ ~var_exists(scopes, global_scope, "i")
    /\ \E e \in DOMAIN ev_trace : ev_trace[e].k = "For"

(***************************************************************************)
(* Properties of the scopes of control flow                                *)
(***************************************************************************)
LoopKinds == {"Each", "For", "While"}

\* the step is a visit of a statement that goes on to visit a body
EntersBody == Len(ev_stack') = Len(ev_stack) + 1

\* the step of a loop from one iteration to the next (or to the first)
NextIteration ==
    /\ ev_pc = "running"
    /\ ev_stack # <<>>
    /\ ev_pending.status = "none"
    /\ Top.kind \in LoopKinds
    /\ Top.todo = <<>>
    /\ Len(ev_stack') = Len(ev_stack)
    /\ ev_stack' # ev_stack

HandlerReturns ==
    /\ ev_pc = "running"
    /\ ev_stack # <<>>
    /\ Len(ev_stack') < Len(ev_stack)
    /\ ev_pc' # "panicked"

\* the step is a whole call of visit_stmt on a statement without a body
LeafVisited ==
    /\ ev_pc = "running"
    /\ ev_stack # <<>>
    /\ Top.todo # <<>>
    /\ ev_stack' = Advance
    /\ ev_pc' # "panicked"

\* C37: when visit_stmt returns, with Ok or with Err, Visitor.parent,
\* media_queries and media_query_sources are what they were when the call started
C37_InsertionPointRestored ==
    /\ [][HandlerReturns =>
             LET saved == ev_stack[Len(ev_stack') + 1].saved
             IN  /\ visitor_parent' = saved.parent
                 /\ media_queries' = saved.media_queries
                 /\ media_query_sources' = saved.media_query_sources]_vars
    /\ [][LeafVisited =>
             /\ visitor_parent' = visitor_parent
             /\ media_queries' = media_queries
             /\ media_query_sources' = media_query_sources]_vars

\* an @error inside @media inside a style rule has just made visit_media_rule
\* return Err: the parent is the style rule again and no query is active
C37_Witness ==
    /\ ev_pc = "running"
    /\ ev_pending.status = "error"
    /\ last_visit.k = "Media"
    /\ last_visit.status = "error"
    /\ visitor_parent # None
    /\ media_queries = None
    /\ Top.kind = "RuleSet"

(***************************************************************************)
(* Properties of the depth of the scope chain                              *)
(***************************************************************************)
\* C38: when visit_stmt returns, with Ok or with Err, the scope chain is as
\* deep as it was when the call started (an error inside the body of @if,
\* @each or @for, or inside a callable, leaves no extra scope)
C38_ScopesBalanced ==
    /\ [][HandlerReturns =>
             Len(scopes') = Len(ev_stack[Len(ev_stack') + 1].saved.scopes)]_vars
    /\ [][LeafVisited => Len(scopes') = Len(scopes)]_vars

(***************************************************************************)
(* Properties of the variables a content block sees                        *)
(***************************************************************************)
IncludeFrames == {i \in 1..Len(ev_stack) : ev_stack[i].kind = "Include"}

\* the innermost handler is the @content of the one mixin that is running:
\* the next statement is a statement of the block of its @include
InContentBlock ==
    /\ ev_stack # <<>>
    /\ Top.kind = "ContentRule"
    /\ Cardinality(IncludeFrames) = 1

\* the scope chain when visit_include_stmt was called
CallSiteScopes == ev_stack[CHOOSE i \in IncludeFrames : TRUE].saved.scopes

\* C40: a variable reference inside a content block is looked up in the
\* scopes of the @include that passed the block: a name bound there (or
\* globally) is found, with the value it has now, and any other name, such
\* as a local of the mixin that runs @content, is an undefined variable
C40_ContentSeesCallSite ==
    [][(Ready("Style") /\ Cur.expr.e = "Variable" /\ InContentBlock
            /\ ev_pc' # "panicked") =>
         IF var_exists(CallSiteScopes, global_scope, Cur.expr.name)
         THEN /\ ev_pending'.status = "none"
              /\ Slot(stmts', Len(stmts)).id
                     = style_value(get_var(scopes, global_scope, Cur.expr.name))
              /\ BindingScope(scopes, Cur.expr.name) <= Len(CallSiteScopes)
         ELSE ev_pending'.status = "error"]_vars

(***************************************************************************)
(* Properties of finish() on the trees the visitor builds                  *)
(***************************************************************************)
\* the number of statements in a list of output statements, nested ones included
RECURSIVE CountNodes(_)
CountNodes(nodes) ==
    IF nodes = <<>> THEN 0
    ELSE 1 + CountNodes(Head(nodes).body) + CountNodes(Tail(nodes))

\* C36: in every tree the visitor builds, every node that has children is
\* a live container statement, and every child has a larger index than its
\* parent, so the child slot and the parent slot that add_child_to_parent
\* borrows while the child is taken are different slots; finish() on such a
\* tree reaches no unreachable!() or todo!(), and its output holds every
\* added statement exactly once, the top-level ones being the children of
\* the root
C36_FinishIsSafe ==
    /\ tree_pc # "panicked"
    /\ tree_pc = "building" =>
          \A idx \in DOMAIN parent_to_child :
              \/ idx = ROOT
              \/ /\ Slot(stmts, idx) # NoStmt
                 /\ Slot(stmts, idx).kind \in ContainerKinds
                 /\ Slot(stmts, idx).kind \notin LeafKinds
    /\ \A child \in DOMAIN child_to_parent : child_to_parent[child] < child
    /\ tree_pc = "finished" =>
          /\ CountNodes(output) = Len(added)
          /\ Len(output) = IF ROOT \in DOMAIN parent_to_child
                           THEN Len(parent_to_child[ROOT]) ELSE 0

\* finish() ran on a tree of the visitor with statements three levels deep
C36_Witness ==
    /\ ev_pc = "done"
    /\ tree_pc = "finished"
    /\ \E i \in DOMAIN output :
          \E j \in DOMAIN output[i].body : output[i].body[j].body # <<>>

(***************************************************************************)
(* Properties of trim_included                                             *)
(***************************************************************************)
\* the kinds of output node a query may exclude
ExcludableKinds == {"RuleSet", "Media", "UnknownAtRule"}

\* the ancestor walk of visit_at_root_rule for a query that excludes the
\* given kinds: the ancestors of par that are not excluded, innermost first
RECURSIVE included_without(_, _)
included_without(par, kinds) ==
    IF par = None THEN <<>>
    ELSE IF Slot(stmts, par[1]) = NoStmt THEN <<>>
    ELSE (IF Slot(stmts, par[1]).kind \in kinds THEN <<>> ELSE <<par[1]>>)
         \o included_without(parent_of(par[1]), kinds)

\* every output node from par up to the root, innermost first
RECURSIVE ancestors_of(_)
ancestors_of(par) ==
    IF par = None \/ par = Some(ROOT) THEN <<>>
    ELSE <<par[1]>> \o ancestors_of(parent_of(par[1]))

\* what C35 says trim_included returns for the parent par and the kinds a
\* query excludes
trim_expected(par, kinds) ==
    LET chain == ancestors_of(par)
        n == Len(chain)
        inc(k) == Slot(stmts, chain[k]).kind \notin kinds
        good == {k \in 1..n : \A j \in k..n : inc(j)}
    IN  IF n = 0 \/ ~inc(n) THEN ROOT
        ELSE chain[CHOOSE k \in good : \A j \in good : k <= j]

\* the nodes of the output tree, as insertion parents
TreeParents == {None} \cup {Some(idx) : idx \in 1..(Len(stmts) - 1)}

\* C35: for every node of a tree the visitor has built, taken as the parent,
\* and every set of excluded kinds, trim_included of the included ancestors
\* does not run off the root, returns ROOT or a member of the list, returns
\* ROOT for the empty list and when the outermost ancestor is excluded, and
\* otherwise returns the innermost included ancestor whose ancestors are all
\* included
C35_TrimIncluded ==
    tree_pc = "building" =>
        \A par \in TreeParents : \A kinds \in SUBSET ExcludableKinds :
            LET nodes == included_without(par, kinds)
                root == trim_included(nodes, par)
            IN  /\ root # TrimPanics
                /\ root = ROOT \/ \E i \in DOMAIN nodes : nodes[i] = root
                /\ nodes = <<>> => root = ROOT
                /\ root = trim_expected(par, kinds)

\* @at-root was visited below an excluded rule whose included ancestors
\* have a gap: the result is neither the root nor the innermost included node
C35_Witness ==
    /\ ev_pc = "running"
    /\ ev_stack # <<>>
    /\ Top.kind = "AtRootRule"
    /\ LET par == Top.saved.parent
           nodes == included_ancestors(par)
           root == trim_included(nodes, par)
       IN  /\ Len(nodes) = 2
           /\ root = nodes[2]
           /\ root # ROOT

(***************************************************************************)
(* Properties of @import                                                   *)
(***************************************************************************)
\* the file whose statements the innermost handlers are visiting: the file of
\* the innermost open @import, or the main stylesheet
RECURSIVE file_being_visited(_)
file_being_visited(stack) ==
    IF stack = <<>> THEN MainPath
    ELSE IF stack[Len(stack)].kind = "Import" THEN stack[Len(stack)].items
    ELSE file_being_visited(SubSeq(stack, 1, Len(stack) - 1))

\* C34: while the statements of an imported stylesheet are visited,
\* current_import_path is the path of that file, so an @import inside it is
\* searched from the directory of that file; when the @import statement
\* returns Ok, current_import_path is the path of the importing file
C34_ImportPathFollowsFile ==
    /\ []((ev_pc = "running" /\ ev_pending.status = "none") =>
              current_import_path = file_being_visited(ev_stack))
    /\ [][Ready("ImportRule") =>
             LET expected == find_import_from(file_being_visited(ev_stack), Cur.url)
             IN  IF expected = None
                 THEN ev_pending'.status = "error"
                 ELSE IF Files[expected[1]].parses
                 THEN file_being_visited(ev_stack') = expected[1]
                 ELSE ev_pending'.status = "error"]_vars
    /\ [][(ReturnsOk /\ Top.kind = "Import") =>
             current_import_path' = file_being_visited(ev_stack')]_vars

(***************************************************************************)
(* Properties of unknown at-rules inside style rules                       *)
(***************************************************************************)
\* an unknown at-rule with a body is about to be visited inside an open
\* style rule and outside keyframes
AtRuleInStyleRule ==
    /\ Ready("UnknownAtRule")
    /\ declaration_name = None
    /\ Cur.name # "keyframes"
    /\ "IN_KEYFRAMES" \notin flags
    /\ style_rule_exists(CurrentCtx)

\* a style rule of the output holds an unknown at-rule among its children
RECURSIVE RuleHoldsAtRule(_)
RuleHoldsAtRule(node) ==
    \E i \in DOMAIN node.body :
        \/ node.kind = "RuleSet" /\ node.body[i].kind = "UnknownAtRule"
        \/ RuleHoldsAtRule(node.body[i])

\* C33: the node of an unknown at-rule visited inside a style rule is not
\* added under a style rule; a copy of the style rule is added under the
\* at-rule; and in the output of finish() no style rule contains an unknown
\* at-rule
C33_AtRuleNotNestedInStyleRule ==
    /\ [][AtRuleInStyleRule =>
             LET at == Len(stmts)
             IN  /\ Slot(stmts', at).kind = "UnknownAtRule"
                 /\ \/ child_to_parent'[at] = ROOT
                    \/ Slot(stmts', child_to_parent'[at]).kind # "RuleSet"
                 /\ Slot(stmts', at + 1) = NewStmt("RuleSet", style_rule[1])
                 /\ child_to_parent'[at + 1] = at]_vars
    /\ [](ev_pc = "done" =>
             LET ts == finish_loop([stmts |-> stmts, panic |-> FALSE], 1)
                 out == live_slots(ts.stmts)
             IN  \A i \in DOMAIN out : ~RuleHoldsAtRule(out[i]))

(***************************************************************************)
(* Properties of calculations                                              *)
(***************************************************************************)
\* a declaration is about to be visited whose value is calc(arg), and arg
\* evaluates to a value that is no number, calculation or string
BadCalculationArg ==
    /\ Ready("Style")
    /\ Cur.expr.e = "Calculation"
    /\ style_is_legal(CurrentCtx)
    /\ LET result == visit_expr(Cur.expr.args[1], scopes, global_scope)
       IN  result.ok /\ result.val.kind \notin {"Dimension", "Calculation", "String"}

\* C32: a calculation argument that evaluates to something else than a
\* number, a calculation or an unquoted string makes the visit return an
\* error value; nothing is added to the output and the process does not crash
C32_BadCalculationArgIsError ==
    [][BadCalculationArg =>
          /\ ev_pending'.status = "error"
          /\ ev_pc' # "panicked"
          /\ stmts' = stmts]_vars

(***************************************************************************)
(* Properties of module configuration                                      *)
(***************************************************************************)
\* the step visits a !default declaration without namespace at the root
\* whose name has a non-null override in module_config
OverrideApplies ==
    /\ decl_count' = decl_count + 1
    /\ last_decl'.decl.is_guarded
    /\ last_decl'.decl.namespace = None
    /\ at_root(scopes)
    /\ last_decl'.decl.name \in DOMAIN module_config
    /\ module_config[last_decl'.decl.name] # Null

DeclVisited == decl_count' = decl_count + 1

\* what the value expression of the declaration visited by the step evaluates to
DeclValue == visit_expr(last_decl'.decl.value, scopes, global_scope)

Init == InitTree /\ InitEnv /\ InitVar /\ InitCall /\ InitFor /\ InitEval

Next == AddStmt \/ finish

Spec == Init /\ [][Next]_vars

SpecVar == Init /\ [][NextVar]_vars

\* variable declarations under a module configuration
InitConfigured ==
    InitTree /\ InitConfiguredEnv /\ InitVar /\ InitCall /\ InitFor /\ InitEval

NextConfigured == EnterControlFlow \/ ExitScope \/ VisitVariableDecl

SpecConfigured == InitConfigured /\ [][NextConfigured]_vars

SpecCall == Init /\ [][NextCall]_vars

SpecFor == Init /\ [][NextFor]_vars

SpecEval == Init /\ [][NextEval]_vars

SpecMedia == Init /\ [][NextMedia]_vars

\* the scope chain under its two users, each run from the initial state:
\* calls of run_user_defined_callable, or the visit of a stylesheet
NextScopes ==
    \/ ev_pc = "idle" /\ NextCall
    \/ last_call = NoCall /\ NextEval

SpecScopes == Init /\ [][NextScopes]_vars

=============================================================================
